---- MODULE Spec2Model ----
(***************************************************************************)
(* Speaker-based retrieval (rag_speaker.py) and its web orchestrator       *)
(* (web_ui.py).                                                            *)
(*                                                                         *)
(* Python str values are TLA+ strings; a character is a string of length   *)
(* one, read with Ch(s, i) (1-based).  Only ASCII text is modelled.        *)
(* Optional[str] is <<>> (None) or <<s>>.                                  *)
(*                                                                         *)
(* Specifications:                                                         *)
(*   SpecSeg   the line loop of parse_speakers on one text                 *)
(*   SpecDate  the line loop of extract_document_date on one text          *)
(*   SpecIdx   one SpeakerRAG: add_speaker / retrieve                      *)
(*   Spec      the handlers of web_ui.py over the two global indices       *)
(***************************************************************************)
EXTENDS Integers, Sequences, FiniteSets, TLC

VARIABLES
    rag,          \* web_ui.py:23   rag = SpeakerRAG(): [corpora, tokens]
    date_rag,     \* web_ui.py:24   date_rag = SpeakerRAG()
    ingested,     \* log: the sources passed to the ingest handlers since
                  \* the last clear_db, in order
    cleared,      \* log: <<>>, or <<the keys the indices held when clear_db
                  \* ran>> until the next ingest
    calls,        \* log: what the latest handler read, retrieved and sent
                  \* to the language model
    ret,          \* the latest call: <<>> while it runs (or before any),
                  \* <<value>> once it has returned value
    seg_text,     \* SpecSeg: parse_speakers' argument text
    seg_n,        \* SpecSeg: number of lines the for loop has consumed
    speakers,     \* SpecSeg: the local dict speakers (insertion ordered)
    current,      \* SpecSeg: the local current
    dx_text,      \* SpecDate: extract_document_date's argument text
    dx_max,       \* SpecDate: its argument max_lines
    dx_n,         \* SpecDate: number of lines the for loop has consumed
    threads       \* SpecJob: the ingest handlers in progress, one record per
                  \* worker thread: its position and its locals

vars_ui   == <<rag, date_rag, ingested, cleared, calls>>
vars_idx  == <<ret>>
vars_seg  == <<seg_text, seg_n, speakers, current>>
vars_date == <<dx_text, dx_max, dx_n>>
vars_job  == <<threads>>
vars      == <<vars_ui, vars_idx, vars_seg, vars_date, vars_job>>

None    == <<>>
Some(s) == <<s>>

-----------------------------------------------------------------------------
(* Characters and the str methods the code uses                            *)

Ch(s, i) == SubSeq(s, i, i)

UpperLetters == {"A","B","C","D","E","F","G","H","I","J","K","L","M",
                 "N","O","P","Q","R","S","T","U","V","W","X","Y","Z"}
LowerLetters == {"a","b","c","d","e","f","g","h","i","j","k","l","m",
                 "n","o","p","q","r","s","t","u","v","w","x","y","z"}
Digits       == {"0","1","2","3","4","5","6","7","8","9"}
Whitespace   == {" ", "\t", "\n"}

UpperSeq == "ABCDEFGHIJKLMNOPQRSTUVWXYZ"
LowerSeq == "abcdefghijklmnopqrstuvwxyz"
DigitSeq == "0123456789"

\* str.isspace / str.isdigit on one character
IsSpace(c) == c \in Whitespace
IsDigit(c) == c \in Digits
\* \w of the re module
IsWordCh(c)  == c \in UpperLetters \cup LowerLetters \cup Digits \cup {"_"}

\* str.lower on one character
LowerCh(c) ==
    IF c \in UpperLetters
    THEN Ch(LowerSeq, CHOOSE i \in 1..Len(UpperSeq) : Ch(UpperSeq, i) = c)
    ELSE c

\* str.lower
Lower(s) ==
    LET RECURSIVE Go(_)
        Go(i) == IF i > Len(s) THEN "" ELSE LowerCh(Ch(s, i)) \o Go(i + 1)
    IN Go(1)

\* str.isupper: at least one cased character and no lowercase one
IsUpperStr(s) ==
    /\ \E i \in 1..Len(s) : Ch(s, i) \in UpperLetters
    /\ \A i \in 1..Len(s) : Ch(s, i) \notin LowerLetters

\* str.strip
Strip(s) ==
    LET ks == {i \in 1..Len(s) : ~IsSpace(Ch(s, i))}
    IN IF ks = {} THEN ""
       ELSE SubSeq(s, CHOOSE i \in ks : \A j \in ks : i <= j,
                      CHOOSE i \in ks : \A j \in ks : i >= j)

\* str.splitlines: a final line break opens no further line
RECURSIVE SplitLines(_)
SplitLines(s) ==
    IF s = "" THEN <<>>
    ELSE LET ns == {i \in 1..Len(s) : Ch(s, i) = "\n"}
         IN IF ns = {} THEN <<s>>
            ELSE LET n == CHOOSE i \in ns : \A j \in ns : i <= j
                 IN <<SubSeq(s, 1, n - 1)>> \o SplitLines(SubSeq(s, n + 1, Len(s)))

\* str.split(): the whitespace-separated words
RECURSIVE SplitWords(_)
SplitWords(s0) ==
    LET s == Strip(s0)
    IN IF s = "" THEN <<>>
       ELSE LET ws == {i \in 1..Len(s) : IsSpace(Ch(s, i))}
            IN IF ws = {} THEN <<s>>
               ELSE LET n == CHOOSE i \in ws : \A j \in ws : i <= j
                    IN <<SubSeq(s, 1, n - 1)>> \o SplitWords(SubSeq(s, n + 1, Len(s)))

\* ' '.join(words)
RECURSIVE JoinSpace(_)
JoinSpace(ws) ==
    IF ws = <<>> THEN ""
    ELSE IF Len(ws) = 1 THEN ws[1]
    ELSE ws[1] \o " " \o JoinSpace(Tail(ws))

\* '\n'.join(lines)
RECURSIVE JoinLines(_)
JoinLines(ls) ==
    IF ls = <<>> THEN ""
    ELSE IF Len(ls) = 1 THEN ls[1]
    ELSE ls[1] \o "\n" \o JoinLines(Tail(ls))

\* the sequences over S of length 0..n
SeqsUpTo(S, n) == UNION {[1..k -> S] : k \in 0..n}

-----------------------------------------------------------------------------
(* parse_speakers (rag_speaker.py:48-83)                                   *)
(* The dict speakers is [order |-> keys in insertion order, segs |-> key   *)
(* to list].                                                               *)

EmptyDict == [order |-> <<>>, segs |-> <<>>]

DictKeys(d) == {d.order[i] : i \in 1..Len(d.order)}

\* speakers.setdefault(key, []).append(seg)
SetDefaultAppend(d, key, seg) ==
    IF key \in DictKeys(d)
    THEN [d EXCEPT !.segs = [k \in DictKeys(d) |->
              IF k = key THEN Append(d.segs[k], seg) ELSE d.segs[k]]]
    ELSE [order |-> Append(d.order, key),
          segs  |-> [k \in DictKeys(d) \cup {key} |->
              IF k = key THEN <<seg>> ELSE d.segs[k]]]

\* speakers[key][-1] += suffix
ExtendLast(d, key, suffix) ==
    [d EXCEPT !.segs = [k \in DictKeys(d) |->
        IF k = key
        THEN [d.segs[k] EXCEPT ![Len(d.segs[k])] = @ \o suffix]
        ELSE d.segs[k]]]

\* line[:match.start()].strip() and line[match.end():].strip() for the
\* delimiter at position i
SpeakerAt(line, i)   == Strip(SubSeq(line, 1, i - 1))
RemainderAt(line, i) == Strip(SubSeq(line, i + 1, Len(line)))

\* line 72: speaker and speaker.isupper() and not speaker[0].isdigit()
SpeakerOk(speaker) ==
    /\ speaker # ""
    /\ IsUpperStr(speaker)
    /\ ~IsDigit(Ch(speaker, 1))

\* lines 73-74: words = remainder.split(); words and words[0].isupper()
LooksLikeInitial(remainder) ==
    LET words == SplitWords(remainder)
    IN words # <<>> /\ IsUpperStr(words[1])

\* A variant of the scan that gives up on the line at the first delimiter the
\* initials guard rejects (break where the code has continue).
RECURSIVE FindBreakStopAtInitial(_, _)
FindBreakStopAtInitial(line, i) ==
    IF i > Len(line) THEN 0
    ELSE IF Ch(line, i) \notin {".", ":"} THEN FindBreakStopAtInitial(line, i + 1)
    ELSE IF SpeakerOk(SpeakerAt(line, i))
         THEN IF LooksLikeInitial(RemainderAt(line, i)) THEN 0 ELSE i
         ELSE FindBreakStopAtInitial(line, i + 1)

\* lines 69-80: the loop over re.finditer(r"[\.:]", line) from position i on;
\* the position of the delimiter at which it breaks, 0 when it runs out
RECURSIVE FindBreak(_, _)
FindBreak(line, i) ==
    IF i > Len(line) THEN 0
    ELSE IF Ch(line, i) \notin {".", ":"} THEN FindBreak(line, i + 1)
    ELSE IF SpeakerOk(SpeakerAt(line, i))
         THEN IF LooksLikeInitial(RemainderAt(line, i))
              THEN FindBreak(line, i + 1)
              ELSE i
         ELSE FindBreak(line, i + 1)

\* A variant of the continuation that opens a new segment instead of
\* extending the last one.
ContinueLineNewSegment(st, line) ==
    IF st.current # None
    THEN [st EXCEPT !.speakers = SetDefaultAppend(st.speakers, st.current[1], line)]
    ELSE st

\* lines 81-82: if not found and current: speakers[current][-1] += ' ' + line
ContinueLine(st, line) ==
    IF st.current # None
    THEN [st EXCEPT !.speakers = ExtendLast(st.speakers, st.current[1], " " \o line)]
    ELSE st

\* lines 67-82: one pass of the for loop, on the loop state
\* st = [speakers, current]
ParseLine(st, raw_line) ==
    LET line == Strip(raw_line)
        b    == FindBreak(line, 1)
    IN IF b # 0
       THEN [speakers |-> SetDefaultAppend(st.speakers, SpeakerAt(line, b),
                                           RemainderAt(line, b)),
             current  |-> Some(SpeakerAt(line, b))]
       ELSE ContinueLine(st, line)

\* lines 64-65
ParseInit == [speakers |-> EmptyDict, current |-> None]

\* lines 64-83: the whole function; returns the dict speakers
RECURSIVE ParseLines(_, _)
ParseLines(st, lines) ==
    IF lines = <<>> THEN st ELSE ParseLines(ParseLine(st, Head(lines)), Tail(lines))

parse_speakers(text) == ParseLines(ParseInit, SplitLines(text)).speakers

-----------------------------------------------------------------------------
(* extract_document_date (rag_speaker.py:86-113)                           *)

\* default of the parameter max_lines
DEFAULT_MAX_LINES == 40

Min(S) == CHOOSE i \in S : \A j \in S : i <= j

\* the last position of the longest run of characters of the set Cls that
\* starts at p (p - 1 when there is none)
RunEnd(line, p, Cls) ==
    LET bad == {j \in p..Len(line) : Ch(line, j) \notin Cls}
    IN IF bad = {} THEN Len(line) ELSE Min(bad) - 1

\* \s inside one line, and the letter class of _DATE_PATTERNS[0]
LineSpace == {" ", "\t"}
Letters   == UpperLetters \cup LowerLetters

\* \b at the gap before position i
WordBoundary(line, i) ==
    LET left  == i > 1 /\ i - 1 <= Len(line) /\ IsWordCh(Ch(line, i - 1))
        right == i >= 1 /\ i <= Len(line) /\ IsWordCh(Ch(line, i))
    IN left # right

AllDigits(line, a, b) ==
    /\ b <= Len(line)
    /\ \A j \in a..b : IsDigit(Ch(line, j))

IsDateSep(c) == c \in {"-", "/", "."}

\* (?:\s+L+)* : the end of the last word that follows the word ending at e
RECURSIVE WordsEnd(_, _)
WordsEnd(line, e) ==
    LET p == RunEnd(line, e + 1, LineSpace) + 1
        q == RunEnd(line, p, Letters)
    IN IF p > e + 1 /\ q >= p THEN WordsEnd(line, q) ELSE e

\* _DATE_PATTERNS[0] tried at start position i: the position of the last
\* character matched, 0 when the pattern does not match there
LongMatchAt(line, i) ==
    IF ~(WordBoundary(line, i) /\ AllDigits(line, i, i + 3)) THEN 0
    ELSE
    LET pm == RunEnd(line, i + 4, LineSpace) + 1        \* \s*
    IN IF ~(pm + 1 <= Len(line) /\ LowerCh(Ch(line, pm)) = "m"
                                /\ Ch(line, pm + 1) = ".") THEN 0
       ELSE
       LET pw == RunEnd(line, pm + 2, LineSpace) + 1    \* \s*
           e1 == RunEnd(line, pw, Letters)               \* first word
       IN IF e1 < pw THEN 0
          ELSE
          LET e  == WordsEnd(line, e1)                    \* further words
              pd == RunEnd(line, e + 1, LineSpace) + 1  \* \s+
              ed == RunEnd(line, pd, Digits)             \* \d{1,2}
          IN IF ~(pd > e + 1 /\ ed >= pd /\ ed - pd + 1 <= 2) THEN 0
             ELSE
             LET q == RunEnd(line, ed + 1, LineSpace) + 1   \* \s*
             IN IF ~(q <= Len(line) /\ LowerCh(Ch(line, q)) = "d") THEN 0
                ELSE IF q + 1 <= Len(line) /\ Ch(line, q + 1) = "."
                     THEN q + 1 ELSE q

\* _DATE_PATTERNS[1] tried at start position i, the month taking ml digits
\* and the day dl digits
NumericTry(line, i, ml, dl) ==
    /\ WordBoundary(line, i)
    /\ AllDigits(line, i, i + 3)
    /\ i + 4 <= Len(line) /\ IsDateSep(Ch(line, i + 4))
    /\ AllDigits(line, i + 5, i + 4 + ml)
    /\ i + 5 + ml <= Len(line) /\ IsDateSep(Ch(line, i + 5 + ml))
    /\ AllDigits(line, i + 6 + ml, i + 5 + ml + dl)
    /\ WordBoundary(line, i + 6 + ml + dl)

\* the quantifier \d{1,2} is greedy: two digits are tried before one
NumericLens == << <<2, 2>>, <<2, 1>>, <<1, 2>>, <<1, 1>> >>

NumericMatchAt(line, i) ==
    LET ok == {k \in 1..Len(NumericLens) :
                  NumericTry(line, i, NumericLens[k][1], NumericLens[k][2])}
    IN IF ok = {} THEN 0
       ELSE i + 5 + NumericLens[Min(ok)][1] + NumericLens[Min(ok)][2]

\* _DATE_PATTERNS[0].search(line): <<>> or <<match.group(0)>>, leftmost match
SearchLong(line) ==
    LET starts == {i \in 1..Len(line) : LongMatchAt(line, i) # 0}
    IN IF starts = {} THEN None
       ELSE Some(SubSeq(line, Min(starts), LongMatchAt(line, Min(starts))))

\* _DATE_PATTERNS[1].search(line)
SearchNumeric(line) ==
    LET starts == {i \in 1..Len(line) : NumericMatchAt(line, i) # 0}
    IN IF starts = {} THEN None
       ELSE Some(SubSeq(line, Min(starts), NumericMatchAt(line, Min(starts))))

\* str.rstrip(',;')
RECURSIVE RStripPunct(_)
RStripPunct(s) ==
    IF s # "" /\ Ch(s, Len(s)) \in {",", ";"}
    THEN RStripPunct(SubSeq(s, 1, Len(s) - 1))
    ELSE s

\* re.split(r"[-/.]", found)
RECURSIVE SplitDate(_)
SplitDate(s) ==
    LET ns == {i \in 1..Len(s) : IsDateSep(Ch(s, i))}
    IN IF ns = {} THEN <<s>>
       ELSE <<SubSeq(s, 1, Min(ns) - 1)>> \o SplitDate(SubSeq(s, Min(ns) + 1, Len(s)))

DigitVal(c) == (CHOOSE i \in 1..10 : Ch(DigitSeq, i) = c) - 1
DigitChr(n) == Ch(DigitSeq, n + 1)

\* int(s) for a string of digits
RECURSIVE ToInt(_)
ToInt(s) ==
    IF s = "" THEN 0
    ELSE 10 * ToInt(SubSeq(s, 1, Len(s) - 1)) + DigitVal(Ch(s, Len(s)))

\* str(n) for n >= 0
RECURSIVE Decimal(_)
Decimal(n) ==
    IF n < 10 THEN DigitChr(n) ELSE Decimal(n \div 10) \o DigitChr(n % 10)

\* A variant of the format that does not pad (f"{n}").
Fmt02Unpadded(n) == Decimal(n)

\* f"{n:02d}"
Fmt02(n) == IF n < 10 THEN "0" \o Decimal(n) ELSE Decimal(n)

\* lines 109-111
FormatNumeric(found) ==
    LET parts == SplitDate(found)
        year  == parts[1]
        month == ToInt(parts[2])
        day   == ToInt(parts[3])
    IN year \o "-" \o Fmt02(month) \o "-" \o Fmt02(day)

\* lines 100-112: one pass of the for loop on raw_line: <<>> when the loop
\* goes on to the next line, <<value>> when it returns value
ExtractLine(raw_line) ==
    LET line == Strip(raw_line)
        m1   == SearchLong(line)
        m2   == SearchNumeric(line)
    IN IF line = "" THEN None
       ELSE IF m1 # None
            THEN Some(JoinSpace(SplitWords(RStripPunct(Strip(m1[1])))))
       ELSE IF m2 # None
            THEN Some(FormatNumeric(RStripPunct(Strip(m2[1]))))
       ELSE None

\* A variant of line 98 that reads all the lines of the text.
WindowLinesAll(text, max_lines) == SplitLines(text)

\* line 98: text.splitlines()[:max_lines]
WindowLines(text, max_lines) ==
    LET ls == SplitLines(text)
    IN SubSeq(ls, 1, IF max_lines < Len(ls) THEN max_lines ELSE Len(ls))

\* lines 98-113: Optional[str]
RECURSIVE ExtractLines(_)
ExtractLines(lines) ==
    IF lines = <<>> THEN None
    ELSE IF ExtractLine(Head(lines)) # None THEN ExtractLine(Head(lines))
    ELSE ExtractLines(Tail(lines))

extract_document_date(text, max_lines) == ExtractLines(WindowLines(text, max_lines))

-----------------------------------------------------------------------------
(* tokenize, cosine_similarity, SpeakerRAG (rag_speaker.py:34-45, 116-129)  *)

WordChars == UpperLetters \cup LowerLetters \cup Digits \cup {"_"}

\* re.findall(r"\w+", s) from position p on
RECURSIVE FindWords(_, _)
FindWords(s, p) ==
    IF p > Len(s) THEN <<>>
    ELSE IF Ch(s, p) \notin WordChars THEN FindWords(s, p + 1)
    ELSE <<SubSeq(s, p, RunEnd(s, p, WordChars))>>
             \o FindWords(s, RunEnd(s, p, WordChars) + 1)

\* lines 34-35
tokenize(text) == FindWords(Lower(text), 1)

\* collections.Counter(tokens): token -> number of occurrences
Counter(toks) ==
    [t \in {toks[i] : i \in 1..Len(toks)} |->
        Cardinality({i \in 1..Len(toks) : toks[i] = t})]

RECURSIVE SumOver(_, _)
SumOver(S, f) ==
    IF S = {} THEN 0
    ELSE LET x == CHOOSE y \in S : TRUE
         IN f[x] + SumOver(S \ {x}, f)

-----------------------------------------------------------------------------
(* Python floats (IEEE 754 binary64, round to nearest even) as far as      *)
(* cosine_similarity uses them: sqrt of an int, the product of two floats  *)
(* and an int divided by a float.  The values are far from overflow and    *)
(* underflow, so a float is 0.0 or m * 2^e with 2^52 <= m < 2^53.  The     *)
(* mantissa does not fit a machine integer of the checker; naturals are    *)
(* kept as sequences of limbs, lowest first, without leading zero limbs.   *)

RECURSIVE Pow2(_)
Pow2(k) == IF k = 0 THEN 1 ELSE 2 * Pow2(k - 1)

LimbBits == 14
LimbBase == Pow2(LimbBits)
MantissaBits == 53

RECURSIVE BigNorm(_)
BigNorm(x) ==
    IF x # <<>> /\ x[Len(x)] = 0 THEN BigNorm(SubSeq(x, 1, Len(x) - 1)) ELSE x

RECURSIVE BigOfInt(_)
BigOfInt(n) == IF n = 0 THEN <<>> ELSE <<n % LimbBase>> \o BigOfInt(n \div LimbBase)

Limb(x, i) == IF i <= Len(x) THEN x[i] ELSE 0

\* -1, 0, 1 as x is below, at, above y; both without leading zero limbs
RECURSIVE BigCmpFrom(_, _, _)
BigCmpFrom(x, y, i) ==
    IF i = 0 THEN 0
    ELSE IF x[i] < y[i] THEN -1
    ELSE IF x[i] > y[i] THEN 1
    ELSE BigCmpFrom(x, y, i - 1)

BigCmp(x, y) ==
    IF Len(x) < Len(y) THEN -1
    ELSE IF Len(x) > Len(y) THEN 1
    ELSE BigCmpFrom(x, y, Len(x))

RECURSIVE BigAddFrom(_, _, _, _)
BigAddFrom(x, y, i, carry) ==
    IF i > Len(x) /\ i > Len(y)
    THEN (IF carry = 0 THEN <<>> ELSE <<carry>>)
    ELSE <<(Limb(x, i) + Limb(y, i) + carry) % LimbBase>>
             \o BigAddFrom(x, y, i + 1, (Limb(x, i) + Limb(y, i) + carry) \div LimbBase)

BigAdd(x, y) == BigAddFrom(x, y, 1, 0)

\* x - y for x >= y
RECURSIVE BigSubFrom(_, _, _, _)
BigSubFrom(x, y, i, borrow) ==
    IF i > Len(x) THEN <<>>
    ELSE <<(x[i] - Limb(y, i) - borrow + LimbBase) % LimbBase>>
             \o BigSubFrom(x, y, i + 1,
                           IF x[i] - Limb(y, i) - borrow < 0 THEN 1 ELSE 0)

BigSub(x, y) == BigNorm(BigSubFrom(x, y, 1, 0))

\* x times the limb d, from limb i of x on
RECURSIVE BigMulLimbFrom(_, _, _, _)
BigMulLimbFrom(x, d, i, carry) ==
    IF i > Len(x) THEN (IF carry = 0 THEN <<>> ELSE <<carry>>)
    ELSE <<(x[i] * d + carry) % LimbBase>>
             \o BigMulLimbFrom(x, d, i + 1, (x[i] * d + carry) \div LimbBase)

\* x times the limbs of y from limb j on
RECURSIVE BigMulFrom(_, _, _)
BigMulFrom(x, y, j) ==
    IF j > Len(y) THEN <<>>
    ELSE BigAdd(BigMulLimbFrom(x, y[j], 1, 0), <<0>> \o BigMulFrom(x, y, j + 1))

BigMul(x, y) == BigNorm(BigMulFrom(x, y, 1))

\* the number of bits of x
RECURSIVE BitsOfLimb(_)
BitsOfLimb(d) == IF d = 0 THEN 0 ELSE 1 + BitsOfLimb(d \div 2)

BigBits(x) == IF x = <<>> THEN 0 ELSE (Len(x) - 1) * LimbBits + BitsOfLimb(x[Len(x)])

\* x * 2^k
BigShl(x, k) ==
    IF x = <<>> THEN <<>>
    ELSE [i \in 1..(k \div LimbBits) |-> 0]
             \o BigNorm(BigMulLimbFrom(x, Pow2(k % LimbBits), 1, 0))

\* x \div 2^k for k a multiple of LimbBits, n = k \div LimbBits
BigHighLimbs(x, n) == IF n >= Len(x) THEN <<>> ELSE SubSeq(x, n + 1, Len(x))

\* x \div 2^k for k below LimbBits, from limb i on
RECURSIVE BigShrBitsFrom(_, _, _)
BigShrBitsFrom(x, k, i) ==
    IF i > Len(x) THEN <<>>
    ELSE <<(x[i] \div Pow2(k)) + (Limb(x, i + 1) % Pow2(k)) * Pow2(LimbBits - k)>>
             \o BigShrBitsFrom(x, k, i + 1)

\* x \div 2^k
BigShr(x, k) ==
    BigNorm(BigShrBitsFrom(BigHighLimbs(x, k \div LimbBits), k % LimbBits, 1))

\* x % 2^k
BigLowBits(x, k) == BigSub(x, BigShl(BigShr(x, k), k))

\* In the loops below only the first test of the exit ever holds; the
\* others make the values of the accumulators be computed on every pass.

\* d * LimbBase^(j - 1)
BigAtLimb(d, j) == IF d = 0 THEN <<>> ELSE [i \in 1..(j - 1) |-> 0] \o <<d>>

\* the largest limb d + c, c below 2^(bit + 1), with
\* (r + (d + c) * LimbBase^(j - 1))^2 <= x: its bits from bit down
RECURSIVE SqrtLimbFrom(_, _, _, _, _)
SqrtLimbFrom(x, r, j, d, bit) ==
    IF bit < 0 \/ d < 0 THEN d
    ELSE SqrtLimbFrom(x, r, j,
             IF BigCmp(BigMul(BigAdd(r, BigAtLimb(d + Pow2(bit), j)),
                              BigAdd(r, BigAtLimb(d + Pow2(bit), j))), x) <= 0
             THEN d + Pow2(bit) ELSE d,
             bit - 1)

\* the largest r + c, c below LimbBase^j, with (r + c)^2 <= x: its limbs
\* from limb j down
RECURSIVE BigSqrtFrom(_, _, _)
BigSqrtFrom(x, r, j) ==
    IF j < 1 \/ Len(r) < 0 THEN r
    ELSE BigSqrtFrom(x, BigAdd(r, BigAtLimb(SqrtLimbFrom(x, r, j, 0, LimbBits - 1), j)),
                     j - 1)

\* the largest r with r * r <= x
BigSqrt(x) == BigSqrtFrom(x, <<>>, (Len(x) + 1) \div 2)

\* The quotient of x * 2^n by y for x < y: one bit of it on every pass,
\* rem being what is left to divide.  Returns [q, rem].
RECURSIVE BigDivBits(_, _, _, _)
BigDivBits(rem, y, q, n) ==
    IF n = 0 \/ Len(q) < 0 \/ Len(rem) < 0 THEN [q |-> q, rem |-> rem]
    ELSE IF BigCmp(BigAdd(rem, rem), y) >= 0
    THEN BigDivBits(BigSub(BigAdd(rem, rem), y), y, BigAdd(BigAdd(q, q), <<1>>), n - 1)
    ELSE BigDivBits(BigAdd(rem, rem), y, BigAdd(q, q), n - 1)

FloatZero == [m |-> <<>>, e |-> 0]

\* the float nearest to q * 2^e, ties to the even mantissa, where q has
\* MantissaBits bits and rest / 2^cut in [0, 1) is what was cut off below
\* q; above says that the exact value lies above (q + rest / 2^cut) * 2^e
RoundUp(q, e) ==
    IF BigBits(BigAdd(q, <<1>>)) > MantissaBits
    THEN [m |-> BigShr(BigAdd(q, <<1>>), 1), e |-> e + 1]
    ELSE [m |-> BigAdd(q, <<1>>), e |-> e]

RoundNearest(q, e, against_half, above) ==
    IF against_half > 0 \/ (against_half = 0 /\ (above \/ q[1] % 2 = 1))
    THEN RoundUp(q, e)
    ELSE [m |-> q, e |-> e]

\* the float nearest to x * 2^e for x > 0 (to a value just above it when
\* above holds)
FloatRound(x, e, above) ==
    IF BigBits(x) <= MantissaBits
    THEN [m |-> BigShl(x, MantissaBits - BigBits(x)),
          e |-> e - (MantissaBits - BigBits(x))]
    ELSE RoundNearest(BigShr(x, BigBits(x) - MantissaBits),
                      e + (BigBits(x) - MantissaBits),
                      BigCmp(BigLowBits(x, BigBits(x) - MantissaBits),
                             BigShl(<<1>>, BigBits(x) - MantissaBits - 1)),
                      above)

\* float(n) for an int n >= 0 below 2^31
FloatOfInt(n) == IF n = 0 THEN FloatZero ELSE FloatRound(BigOfInt(n), 0, FALSE)

\* math.sqrt(n) for an int n >= 0 below 2^31: the root r of n * 2^110 has
\* 55 bits at least
SqrtRounded(x, r) == FloatRound(r, -55, BigCmp(BigMul(r, r), x) < 0)

FloatSqrt(n) ==
    IF n = 0 THEN FloatZero
    ELSE SqrtRounded(BigShl(BigOfInt(n), 110), BigSqrt(BigShl(BigOfInt(n), 110)))

\* a * b
FloatMul(a, b) ==
    IF a.m = <<>> \/ b.m = <<>> THEN FloatZero
    ELSE FloatRound(BigMul(a.m, b.m), a.e + b.e, FALSE)

\* a / b for b > 0.  Both mantissas have MantissaBits bits, so a.m is
\* below 2 * b.m: the quotient of a.m * 2^56 by b.m is the bit
\* a.m >= b.m followed by the 56 bits of the quotient of what is left,
\* and has 56 bits at least.
DivRounded(d, e) == FloatRound(d.q, e, d.rem # <<>>)

FloatDiv(a, b) ==
    IF a.m = <<>> \/ b.m = <<>> THEN FloatZero
    ELSE IF BigCmp(a.m, b.m) >= 0
    THEN DivRounded(BigDivBits(BigSub(a.m, b.m), b.m, <<1>>, 56), a.e - b.e - 56)
    ELSE DivRounded(BigDivBits(a.m, b.m, <<>>, 56), a.e - b.e - 56)

\* a < b for floats >= 0
FloatLess(a, b) ==
    IF b.m = <<>> THEN FALSE
    ELSE IF a.m = <<>> THEN TRUE
    ELSE a.e < b.e \/ (a.e = b.e /\ BigCmp(a.m, b.m) < 0)

FloatOne == FloatOfInt(1)

\* the sums of squares and the dot products whose floats are computed
\* once
TabledSums == 0..16
TabledDots == 0..3

FloatSqrtTable == {<<n, FloatSqrt(n)>> : n \in TabledSums}

\* math.sqrt(n) for an int n >= 0
sqrt(n) ==
    IF n \in TabledSums THEN (CHOOSE p \in FloatSqrtTable : p[1] = n)[2]
    ELSE FloatSqrt(n)

\* lines 43-45 for the dot product and the two norms
Cosine(dot, norm_a, norm_b) ==
    IF norm_a = FloatZero \/ norm_b = FloatZero THEN FloatZero
    ELSE FloatDiv(FloatOfInt(dot), FloatMul(norm_a, norm_b))

\* the cosines of a query of one word
CosineTable ==
    {<<dot, sb, Cosine(dot, sqrt(1), sqrt(sb))>> : dot \in TabledDots, sb \in TabledSums}

\* lines 41-45 for the dot product and the two sums of squares
CosineOfSums(dot, sa, sb) ==
    IF sa = 1 /\ dot \in TabledDots /\ sb \in TabledSums
    THEN (CHOOSE p \in CosineTable : p[1] = dot /\ p[2] = sb)[3]
    ELSE Cosine(dot, sqrt(sa), sqrt(sb))

\* lines 38-45.  The result is the float of the code.
cosine_similarity(a, b) ==
    CosineOfSums(SumOver(DOMAIN a \cap DOMAIN b,
                         [x \in DOMAIN a \cap DOMAIN b |-> a[x] * b[x]]),
                 SumOver(DOMAIN a, [x \in DOMAIN a |-> a[x] * a[x]]),
                 SumOver(DOMAIN b, [x \in DOMAIN b |-> b[x] * b[x]]))

\* the order of the floats (both are >= 0)
ScoreLess(x, y) == FloatLess(x, y)
ScoreEq(x, y)   == x = y

\* dict[key] = value
DictPut(d, key, value) ==
    [k \in DOMAIN d \cup {key} |-> IF k = key THEN value ELSE d[k]]

\* lines 121-123.  keys is the insertion order of the dict corpora.
add_speaker(r, speaker, texts) ==
    [corpora |-> DictPut(r.corpora, speaker, texts),
     tokens  |-> DictPut(r.tokens, speaker,
                     [i \in 1..Len(texts) |-> Counter(tokenize(texts[i]))]),
     keys    |-> IF speaker \in DOMAIN r.corpora THEN r.keys
                 ELSE Append(r.keys, speaker)]

\* A variant of the ranking, sorted(...)[::-1]: ascending and then reversed,
\* which turns the order of equal scores around.
RECURSIVE RankedReversed(_, _)
RankedReversed(scores, n) ==
    IF n = 0 THEN <<>>
    ELSE LET prev == RankedReversed(scores, n - 1)
             ahead == {j \in 1..Len(prev) : ScoreLess(scores[n], scores[prev[j]])}
             k == Cardinality(ahead)
         IN SubSeq(prev, 1, k) \o <<n>> \o SubSeq(prev, k + 1, Len(prev))

\* line 128: sorted(range(len(scores)), key=lambda i: scores[i], reverse=True)
\* over the first n indices (1-based here).  The sort is stable, also with
\* reverse=True: index n goes behind every earlier index whose score is not
\* lower.
RECURSIVE Ranked(_, _)
Ranked(scores, n) ==
    IF n = 0 THEN <<>>
    ELSE LET prev == Ranked(scores, n - 1)
             ahead == {j \in 1..Len(prev) : ~ScoreLess(scores[prev[j]], scores[n])}
             k == Cardinality(ahead)
         IN SubSeq(prev, 1, k) \o <<n>> \o SubSeq(prev, k + 1, Len(prev))

\* ranked[:top_k]
Prefix(seq, top_k) ==
    IF top_k >= 0
    THEN SubSeq(seq, 1, IF top_k < Len(seq) THEN top_k ELSE Len(seq))
    ELSE SubSeq(seq, 1, Len(seq) + top_k)

\* lines 126-127
Scores(r, speaker, query) ==
    LET q_tokens == Counter(tokenize(query))
    IN [i \in 1..Len(r.tokens[speaker]) |->
           cosine_similarity(q_tokens, r.tokens[speaker][i])]

\* lines 125-129, for a speaker in self.tokens (any other raises KeyError)
retrieve(r, speaker, query, top_k) ==
    LET scores == Scores(r, speaker, query)
        ranked == Ranked(scores, Len(scores))
        top    == Prefix(ranked, top_k)
    IN [i \in 1..Len(top) |-> r.corpora[speaker][top[i]]]

\* web_ui.py:491, 480: the default of top_k
DEFAULT_TOP_K == 3

-----------------------------------------------------------------------------
(* Date labels (web_ui.py:30, 50-158)                                      *)

\* ASCII spelling of 'Nezinoma data' (line 30)
UNKNOWN_DATE_LABEL == "Nezinoma data"

\* lines 50-76: the keys a token can equal once its accents are stripped
LtMonthNames ==
    <<"sausio", "sausis", "vasario", "vasaris", "kovo", "kovas",
      "balandzio", "balandis", "geguzes", "geguze", "birzelio", "birzelis",
      "liepos", "liepa", "rugpjucio", "rugpjutis", "rugsejo", "rugsejis",
      "spalio", "spalis", "lapkricio", "lapkritis", "gruodzio", "gruodis">>
LtMonthNumbers ==
    <<1, 1, 2, 2, 3, 3, 4, 4, 5, 5, 6, 6, 7, 7, 8, 8, 9, 9, 10, 10, 11, 11, 12, 12>>

\* _LT_MONTHS.get(base): 0 stands for None
LtMonth(base) ==
    LET ks == {i \in 1..Len(LtMonthNames) : LtMonthNames[i] = base}
    IN IF ks = {} THEN 0 ELSE LtMonthNumbers[Min(ks)]

\* datetime.date(year, month, day) is <<year, month, day>>
IsLeap(y) == (y % 4 = 0 /\ y % 100 # 0) \/ y % 400 = 0
DaysIn(y, m) ==
    IF m = 2 THEN (IF IsLeap(y) THEN 29 ELSE 28)
    ELSE IF m \in {4, 6, 9, 11} THEN 30 ELSE 31

\* whether date(y, m, d) raises no ValueError
ValidDate(y, m, d) ==
    /\ y >= 1 /\ y <= 9999
    /\ m >= 1 /\ m <= 12
    /\ d >= 1 /\ d <= DaysIn(y, m)

\* date.max
DATE_MAX == <<9999, 12, 31>>

DateLess(a, b) ==
    \/ a[1] < b[1]
    \/ a[1] = b[1] /\ a[2] < b[2]
    \/ a[1] = b[1] /\ a[2] = b[2] /\ a[3] < b[3]
DateLeq(a, b) == a = b \/ DateLess(a, b)

\* date.fromisoformat(s) for the form YYYY-MM-DD: <<>> for ValueError, else
\* <<date>>
FromIso(s) ==
    IF /\ Len(s) = 10
       /\ \A i \in 1..10 : IF i \in {5, 8} THEN Ch(s, i) = "-" ELSE IsDigit(Ch(s, i))
       /\ ValidDate(ToInt(SubSeq(s, 1, 4)), ToInt(SubSeq(s, 6, 7)), ToInt(SubSeq(s, 9, 10)))
    THEN << <<ToInt(SubSeq(s, 1, 4)), ToInt(SubSeq(s, 6, 7)), ToInt(SubSeq(s, 9, 10))>> >>
    ELSE <<>>

\* date.isoformat()
Fmt04(n) ==
    IF n < 10 THEN "000" \o Decimal(n)
    ELSE IF n < 100 THEN "00" \o Decimal(n)
    ELSE IF n < 1000 THEN "0" \o Decimal(n)
    ELSE Decimal(n)
IsoFormat(d) == Fmt04(d[1]) \o "-" \o Fmt02(d[2]) \o "-" \o Fmt02(d[3])

\* lines 94-98: the regular expression tried at start position i: <<>> or
\* <<year, month_raw, day>> (the three groups).  Group 2 is greedy over
\* letters, whitespace and dots, so it runs up to the last whitespace before
\* the first character outside that class, which must be a digit.  pm is
\* the position of "m", p2 the first position after "m." and its
\* whitespace, e2 the last position of the run of group 2 and the
\* whitespace behind it.
LabelMatchDay(s, i, pm, p2, e2) ==
    IF ~(e2 + 1 <= Len(s) /\ IsDigit(Ch(s, e2 + 1)) /\ e2 >= pm + 2
                          /\ Ch(s, e2) \in LineSpace)
    THEN <<>>
    ELSE <<SubSeq(s, i, i + 3),
           IF e2 - 1 >= p2 THEN SubSeq(s, p2, e2 - 1) ELSE "",
           IF e2 + 2 <= Len(s) /\ IsDigit(Ch(s, e2 + 2))
           THEN SubSeq(s, e2 + 1, e2 + 2) ELSE SubSeq(s, e2 + 1, e2 + 1)>>

LabelMatchMonth(s, i, pm, p2) ==
    LabelMatchDay(s, i, pm, p2, RunEnd(s, p2, Letters \cup LineSpace \cup {"."}))

LabelMatchM(s, i, pm) ==
    IF ~(pm + 1 <= Len(s) /\ LowerCh(Ch(s, pm)) = "m" /\ Ch(s, pm + 1) = ".")
    THEN <<>>
    ELSE LabelMatchMonth(s, i, pm, RunEnd(s, pm + 2, LineSpace) + 1)

LabelMatchAt(s, i) ==
    IF ~AllDigits(s, i, i + 3) THEN <<>>
    ELSE LabelMatchM(s, i, RunEnd(s, i + 4, LineSpace) + 1)

\* re.sub(r'[^letters\s]', ' ', month_raw)
RECURSIVE BlankNonLetters(_)
BlankNonLetters(s) ==
    IF s = "" THEN ""
    ELSE (IF Ch(s, 1) \in Letters \cup Whitespace THEN Ch(s, 1) ELSE " ")
            \o BlankNonLetters(SubSeq(s, 2, Len(s)))

\* lines 79-83 on ASCII text, which has no combining marks
strip_accents(text) == text

\* lines 107-114: the month of the first token that names one, 0 for None
RECURSIVE MonthOfTokens(_)
MonthOfTokens(toks) ==
    IF toks = <<>> THEN 0
    ELSE LET base == strip_accents(Lower(Head(toks)))
         IN IF base = "men" THEN MonthOfTokens(Tail(toks))
            ELSE IF LtMonth(base) # 0 THEN LtMonth(base)
            ELSE MonthOfTokens(Tail(toks))

\* lines 111-122: the date of year, month (0 for None) and day
DateOfGroups(year, month, day) ==
    IF month = 0 THEN <<>>
    ELSE IF ValidDate(year, month, day) THEN << <<year, month, day>> >>
    ELSE <<>>

\* lines 102-122 for the groups g of the match
DateOfMatch(g) ==
    DateOfGroups(ToInt(g[1]), MonthOfTokens(SplitWords(BlankNonLetters(g[2]))),
                 ToInt(g[3]))

\* lines 94-100: re.search takes the leftmost start that matches
DateOfSearch(cleaned, starts) ==
    IF starts = {} THEN <<>> ELSE DateOfMatch(LabelMatchAt(cleaned, Min(starts)))

\* lines 88-100 for the stripped label; iso is fromisoformat(cleaned)
ParseCleaned(cleaned, iso) ==
    IF cleaned = "" \/ cleaned = UNKNOWN_DATE_LABEL THEN <<>>
    ELSE IF iso # <<>> THEN iso
    ELSE DateOfSearch(cleaned, {i \in 1..Len(cleaned) : LabelMatchAt(cleaned, i) # <<>>})

\* lines 86-122: <<>> for None, else <<date>>
ParseDateLabel(label) == ParseCleaned(Strip(label), FromIso(Strip(label)))

\* _parse_date_label on the labels that are looked up most, computed once
FrequentLabels ==
    {"2023-01-01", "2023-02-01", "2023 m. vasario 1 d.", UNKNOWN_DATE_LABEL}
ParsedLabels == [l \in FrequentLabels |-> ParseDateLabel(l)]

\* lines 86-122
parse_date_label(label) ==
    IF label \in FrequentLabels THEN ParsedLabels[label] ELSE ParseDateLabel(label)

\* the printable ASCII characters with code points 32..95 and 97..126
AsciiLow  == " !\"#$%&'()*+,-./0123456789:;<=>?@ABCDEFGHIJKLMNOPQRSTUVWXYZ[\\]^_"
AsciiHigh == "abcdefghijklmnopqrstuvwxyz{|}~"

\* ord(c)
Ord(c) ==
    IF c = "\t" THEN 9
    ELSE IF c = "\n" THEN 10
    ELSE IF \E i \in 1..Len(AsciiLow) : Ch(AsciiLow, i) = c
         THEN 31 + Min({i \in 1..Len(AsciiLow) : Ch(AsciiLow, i) = c})
         ELSE 96 + Min({i \in 1..Len(AsciiHigh) : Ch(AsciiHigh, i) = c})

\* a < b for str
RECURSIVE StrLess(_, _)
StrLess(a, b) ==
    IF b = "" THEN FALSE
    ELSE IF a = "" THEN TRUE
    ELSE IF Ch(a, 1) = Ch(b, 1)
         THEN StrLess(SubSeq(a, 2, Len(a)), SubSeq(b, 2, Len(b)))
         ELSE Ord(Ch(a, 1)) < Ord(Ch(b, 1))

\* A variant of the sort key that leaves the date out: (dt_date.max,
\* label.lower()).
MakeSortKeyText(parsed, label) == <<DATE_MAX, Lower(label)>>

\* lines 125-127: (parsed or dt_date.max, label.lower())
MakeSortKey(parsed, label) ==
    <<IF parsed = <<>> THEN DATE_MAX ELSE parsed[1], Lower(label)>>

date_sort_key(label) == MakeSortKey(parse_date_label(label), label)

\* the order of the tuples
SortKeyLess(x, y) ==
    \/ DateLess(x[1], y[1])
    \/ x[1] = y[1] /\ StrLess(x[2], y[2])

\* list.insert(k, x) on a copy
InsertAt(prev, x, k) == SubSeq(prev, 1, k) \o <<x>> \o SubSeq(prev, k + 1, Len(prev))

\* the sort is stable: a label goes behind every earlier one whose key is
\* not greater
InsertLabel(prev, label, key) ==
    InsertAt(prev, label,
             Cardinality({j \in 1..Len(prev) : ~SortKeyLess(key, date_sort_key(prev[j]))}))

\* list.sort(key=_date_sort_key) / sorted(..., key=_date_sort_key) over the
\* first n labels
RECURSIVE SortLabels(_, _)
SortLabels(labels, n) ==
    IF n = 0 THEN <<>>
    ELSE InsertLabel(SortLabels(labels, n - 1), labels[n], date_sort_key(labels[n]))

\* lines 130-131
sorted_date_labels(dr) == SortLabels(dr.keys, Len(dr.keys))

\* lines 134-145: the ISO dates of the labels that parse, in label order,
\* each once
RECURSIVE IsoDatesOf(_, _)

\* lines 141-144 for the ISO date iso of the first label
IsoDatesAdd(labels, seen, iso) ==
    IF iso \in seen THEN IsoDatesOf(Tail(labels), seen)
    ELSE <<iso>> \o IsoDatesOf(Tail(labels), seen \cup {iso})

\* lines 138-141 for the parsed first label
IsoDatesNext(labels, seen, parsed) ==
    IF parsed = <<>> THEN IsoDatesOf(Tail(labels), seen)
    ELSE IsoDatesAdd(labels, seen, IsoFormat(parsed[1]))

IsoDatesOf(labels, seen) ==
    IF labels = <<>> THEN <<>>
    ELSE IsoDatesNext(labels, seen, parse_date_label(Head(labels)))

available_iso_dates(dr) == IsoDatesOf(sorted_date_labels(dr), {})

-----------------------------------------------------------------------------
(* The variables a specification does not use stay at these values         *)

\* rag_speaker.py:117-119
EmptyRag == [corpora |-> <<>>, tokens |-> <<>>, keys |-> <<>>]

IdleUi   == /\ rag = EmptyRag /\ date_rag = EmptyRag
            /\ ingested = <<>> /\ cleared = <<>> /\ calls = <<>>
IdleSeg  == seg_text = "" /\ seg_n = 0 /\ speakers = EmptyDict /\ current = None
IdleDate == dx_text = "" /\ dx_max = 0 /\ dx_n = 0
IdleJob  == threads = <<>>

-----------------------------------------------------------------------------
(* SpecSeg: parse_speakers run line by line on one text                    *)

MaxSegLines == 3

SegLines == {"PIRMININKAS: Sveiki.", "Toliau kalba.", "V. JONAITIS. Labas.",
             "", "  ", "A: OK", "1A. x", " B : y ", "ab. C: d"}

SegTexts == {JoinLines(ls) : ls \in SeqsUpTo(SegLines, MaxSegLines)}

InitSeg ==
    /\ seg_text \in SegTexts
    /\ seg_n = 0
    /\ speakers = ParseInit.speakers
    /\ current = ParseInit.current
    /\ ret = <<>>
    /\ IdleUi /\ IdleDate /\ IdleJob

\* one pass of the for loop of line 66
SegLine ==
    /\ ret = <<>>
    /\ seg_n < Len(SplitLines(seg_text))
    /\ LET st == ParseLine([speakers |-> speakers, current |-> current],
                           SplitLines(seg_text)[seg_n + 1])
       IN /\ speakers' = st.speakers
          /\ current' = st.current
    /\ seg_n' = seg_n + 1
    /\ UNCHANGED <<seg_text, ret, vars_ui, vars_date, vars_job>>

\* line 83: return speakers
SegReturn ==
    /\ ret = <<>>
    /\ seg_n = Len(SplitLines(seg_text))
    /\ ret' = <<speakers>>
    /\ UNCHANGED <<vars_seg, vars_ui, vars_date, vars_job>>

NextSeg == SegLine \/ SegReturn

SpecSeg == InitSeg /\ [][NextSeg]_vars

\* the step SegLine is being taken on the stripped line l
SegLineOn(l) ==
    /\ ret = <<>>
    /\ seg_n < Len(SplitLines(seg_text))
    /\ seg_n' = seg_n + 1
    /\ l = Strip(SplitLines(seg_text)[seg_n + 1])

\* the delimiters of line l that qualify as a speaker break, stated on the
\* line alone
ValidBreaks(l) ==
    {i \in 1..Len(l) :
        /\ Ch(l, i) \in {".", ":"}
        /\ LET before == Strip(SubSeq(l, 1, i - 1))
               after  == Strip(SubSeq(l, i + 1, Len(l)))
               first  == IF after = "" THEN ""
                         ELSE SubSeq(after, 1,
                                  CHOOSE n \in 1..Len(after) :
                                      /\ \A j \in 1..n : ~IsSpace(Ch(after, j))
                                      /\ n = Len(after) \/ IsSpace(Ch(after, n + 1)))
           IN /\ before # ""
              /\ IsUpperStr(before)
              /\ ~IsDigit(Ch(before, 1))
              /\ ~(first # "" /\ IsUpperStr(first))}

SegKeys(d) == DictKeys(d)
SegList(d, k) == IF k \in DictKeys(d) THEN d.segs[k] ELSE <<>>

ExampleText == "PIRMININKAS: Sveiki.\nToliau kalba.\nV. JONAITIS. Labas."
ExampleDict ==
    [order |-> <<"PIRMININKAS", "V. JONAITIS">>,
     segs  |-> [k \in {"PIRMININKAS", "V. JONAITIS"} |->
                   IF k = "PIRMININKAS" THEN <<"Sveiki. Toliau kalba.">>
                   ELSE <<"Labas.">>]]

\* C7: on every line the speaker break is the leftmost '.' or ':' whose
\* preceding text is non-empty, uppercase and not starting with a digit and
\* whose following text does not start with an all-uppercase word; the
\* stripped text before it becomes the current speaker and the stripped text
\* after it is appended as a new segment to that speaker's list, the other
\* lists staying as they were; a delimiter rejected as an initial does not
\* end the scan, and the example text yields exactly PIRMININKAS ->
\* ["Sveiki. Toliau kalba."], V. JONAITIS -> ["Labas."].
C7_FirstValidDelimiterWins ==
    /\ [][\A l \in {Strip(x) : x \in SegLines} :
            (SegLineOn(l) /\ ValidBreaks(l) # {}) =>
                LET b   == CHOOSE i \in ValidBreaks(l) :
                               \A j \in ValidBreaks(l) : i <= j
                    sp  == Strip(SubSeq(l, 1, b - 1))
                    rem == Strip(SubSeq(l, b + 1, Len(l)))
                IN /\ current' = Some(sp)
                   /\ SegKeys(speakers') = SegKeys(speakers) \cup {sp}
                   /\ SegList(speakers', sp) = SegList(speakers, sp) \o <<rem>>
                   /\ \A k \in SegKeys(speakers) \ {sp} :
                          SegList(speakers', k) = SegList(speakers, k)]_vars
    /\ []((seg_text = ExampleText /\ ret # <<>>) => ret = <<ExampleDict>>)

C7_Witness ==
    /\ seg_text = ExampleText
    /\ ret = <<ExampleDict>>

\* C8: a line with no valid speaker break creates no key and no segment; with
\* a speaker active it changes only that speaker's last segment, to the old
\* segment, one space and the stripped line; with no speaker active yet (no
\* speaker line has been read) it changes nothing.
C8_ContinuationExtendsLastSegment ==
    /\ [][\A l \in {Strip(x) : x \in SegLines} :
            (SegLineOn(l) /\ ValidBreaks(l) = {}) =>
                /\ current' = current
                /\ speakers'.order = speakers.order
                /\ \A k \in SegKeys(speakers) :
                      /\ Len(speakers'.segs[k]) = Len(speakers.segs[k])
                      /\ \A i \in 1..Len(speakers.segs[k]) :
                            speakers'.segs[k][i] =
                                IF current = Some(k) /\ i = Len(speakers.segs[k])
                                THEN speakers.segs[k][i] \o " " \o l
                                ELSE speakers.segs[k][i]]_vars
    /\ [](current = None <=> speakers.order = <<>>)

C8_Witness ==
    /\ seg_text = "Toliau kalba.\nPIRMININKAS: Sveiki.\nToliau kalba."
    /\ ret = <<[order |-> <<"PIRMININKAS">>,
                segs  |-> [k \in {"PIRMININKAS"} |-> <<"Sveiki. Toliau kalba.">>]]>>

\* the text without its lines that hold nothing but whitespace
RemoveBlankLines(text) ==
    JoinLines(SelectSeq(SplitLines(text), LAMBDA x : Strip(x) # ""))

\* C9: a line of whitespace only contributes nothing: the text parses to
\* exactly the mapping that the text without such lines parses to.
C9_BlankLinesContributeNothing ==
    ret # <<>> => ret = <<parse_speakers(RemoveBlankLines(seg_text))>>

-----------------------------------------------------------------------------
(* SpecDate: extract_document_date run line by line on one text            *)

MaxDateLines == 2

\* lines in which neither pattern matches
NoDateLines == {"", "no date", "x2023-05-07", "2023-05-071"}

DateLines == NoDateLines \cup
             {"2023 m. sausio 1 d.", "2023  m.  geguzes   7 d",
              "2023-01-02 ir 2023 m. kovo 3 d.", "2023-13-45",
              "2023/5/7", "2023.05.07", "2023-05-07"}

\* a numeric date as a source may write it
NumComps == [pre : {"", "a "}, y : {"2023"}, s1 : {"-", "/", "."},
             m : {"5", "05", "12"}, s2 : {"-", "/", "."},
             d : {"7", "07", "31"}, post : {"", "."}]

NumLine(c) == c.pre \o c.y \o c.s1 \o c.m \o c.s2 \o c.d \o c.post

DateTexts == {JoinLines(ls) : ls \in SeqsUpTo(DateLines, MaxDateLines)}
             \cup {NumLine(c) : c \in NumComps}

InitDate ==
    /\ dx_text \in DateTexts
    /\ dx_max \in {1, 2, DEFAULT_MAX_LINES}
    /\ dx_n = 0
    /\ ret = <<>>
    /\ IdleUi /\ IdleSeg /\ IdleJob

\* one pass of the for loop of line 99
DxLine ==
    /\ ret = <<>>
    /\ dx_n < Len(WindowLines(dx_text, dx_max))
    /\ dx_n' = dx_n + 1
    /\ LET r == ExtractLine(WindowLines(dx_text, dx_max)[dx_n + 1])
       IN ret' = IF r = None THEN <<>> ELSE <<r>>
    /\ UNCHANGED <<dx_text, dx_max, vars_ui, vars_seg, vars_job>>

\* line 113: return None
DxReturnNone ==
    /\ ret = <<>>
    /\ dx_n = Len(WindowLines(dx_text, dx_max))
    /\ ret' = <<None>>
    /\ UNCHANGED <<vars_date, vars_ui, vars_seg, vars_job>>

NextDate == DxLine \/ DxReturnNone

SpecDate == InitDate /\ [][NextDate]_vars

\* the date written with month and day padded to two digits
Pad2(ds) == IF Len(ds) = 1 THEN "0" \o ds ELSE ds
Canonical(c) == c.y \o "-" \o Pad2(c.m) \o "-" \o Pad2(c.d)

IsIsoShape(r) ==
    /\ Len(r) = 10
    /\ \A i \in 1..10 : IF i \in {5, 8} THEN Ch(r, i) = "-" ELSE IsDigit(Ch(r, i))

\* C10: when the line that decides the result holds a numeric date (year,
\* month, day separated by '-', '/' or '.', month and day of one or two
\* digits), the extractor returns YYYY-MM-DD with month and day padded to two
\* digits, whatever the separators and the padding of the source; a result
\* that is not of the long form is always of that shape.
C10_NumericDateIsNormalised ==
    ret # <<>> =>
        /\ LET ls == SplitLines(dx_text)
               ds == {k \in 1..Len(ls) : ls[k] \notin NoDateLines}
           IN (ds # {} /\ Min(ds) <= dx_max) =>
                  \A c \in NumComps :
                      ls[Min(ds)] = NumLine(c) => ret = <<Some(Canonical(c))>>
        /\ (ret[1] # None /\ \A i \in 1..Len(ret[1][1]) : Ch(ret[1][1], i) \notin Letters)
              => IsIsoShape(ret[1][1])

C10_Witness ==
    /\ dx_text = "2023/5/7"
    /\ ret = <<Some("2023-05-07")>>

\* one of the two patterns matches somewhere in the stripped line
HasLong(line)    == \E i \in 1..Len(line) : LongMatchAt(line, i) # 0
HasNumeric(line) == \E i \in 1..Len(line) : NumericMatchAt(line, i) # 0

\* the numbers of the lines, among the first n of the text, in which a
\* pattern matches
DatedLineNumbers(ls, n) ==
    {k \in 1..Len(ls) : k <= n /\ (HasLong(Strip(ls[k])) \/ HasNumeric(Strip(ls[k])))}

\* r is the date of line, the long form when the line holds one
IsDateOfLine(r, line) ==
    /\ r # None
    /\ r = ExtractLine(line)
    /\ IF HasLong(Strip(line)) THEN \E i \in 1..Len(r[1]) : Ch(r[1], i) \in Letters
       ELSE IsIsoShape(r[1])

\* the result for the lines ls read up to the n-th, having stopped after
\* line stopped
IsDateOfWindow(r, ls, dated, stopped, n) ==
    IF dated = {}
    THEN r = None /\ stopped = (IF n < Len(ls) THEN n ELSE Len(ls))
    ELSE stopped = Min(dated) /\ IsDateOfLine(r, ls[Min(dated)])

\* C11: the extractor returns the date of the first line, among the first
\* max_lines lines of the text, in which one of the two patterns matches,
\* and stops there; when the long form matches in that line the result is
\* the long form, the numeric form otherwise; a date in a later line of the
\* window or beyond the window does not count, and without a matching line
\* in the window the result is None.
C11_FirstDatedLineInWindow ==
    ret # <<>> =>
        IsDateOfWindow(ret[1], SplitLines(dx_text),
                       DatedLineNumbers(SplitLines(dx_text), dx_max), dx_n, dx_max)

C11_Witness ==
    /\ dx_text = "no date\n2023-05-07"
    /\ dx_max = 1
    /\ ret = <<None>>

-----------------------------------------------------------------------------
(* SpecIdx: one SpeakerRAG under add_speaker and retrieve                  *)

MaxIdxSegs == 2
MaxTopK    == 3

IdxKeys    == {"A", "B"}
IdxSegs(k) == IF k = "A" THEN {"x y", "y y y", "Y"} ELSE {"z"}
IdxQueries == {"y", "z"}

InitIdx ==
    /\ rag = EmptyRag
    /\ ret = <<>>
    /\ date_rag = EmptyRag
    /\ ingested = <<>> /\ cleared = <<>> /\ calls = <<>>
    /\ IdleSeg /\ IdleDate /\ IdleJob

IdxUnchanged == UNCHANGED <<date_rag, ingested, cleared, calls,
                            vars_seg, vars_date, vars_job>>

\* rag.add_speaker(k, texts); returns None
IdxAddSpeaker ==
    \E k \in IdxKeys : \E texts \in SeqsUpTo(IdxSegs(k), MaxIdxSegs) :
        /\ rag' = add_speaker(rag, k, texts)
        /\ ret' = <<>>
        /\ IdxUnchanged

\* rag.retrieve(k, q, top_k)
IdxRetrieve ==
    \E k \in IdxKeys : \E q \in IdxQueries : \E top_k \in 0..MaxTopK :
        /\ ret' = <<[speaker |-> k, query |-> q, top_k |-> top_k,
                     raised  |-> k \notin DOMAIN rag.tokens,
                     value   |-> IF k \in DOMAIN rag.tokens
                                 THEN retrieve(rag, k, q, top_k) ELSE <<>>]>>
        /\ UNCHANGED rag
        /\ IdxUnchanged

NextIdx == IdxAddSpeaker \/ IdxRetrieve

SpecIdx == InitIdx /\ [][NextIdx]_vars

\* the cosine of the token bags of two texts, computed from the texts
TextScore(q, t) == cosine_similarity(Counter(tokenize(q)), Counter(tokenize(t)))

\* C4: retrieve on a present key with n segments returns min(top_k, n)
\* segments: there are positions p[1] .. p[m] of the key's list, all
\* different, whose segments are the ones returned, in that order; their
\* scores against the query never increase; of two with equal scores the one
\* stored first comes first; and no position left out has a higher score than
\* a position returned.  With ["x y", "y y y"]: the query "y" with top_k 1
\* gives ["y y y"], the query "z" gives both in stored order.
C4_RetrieveTopK ==
    (ret # <<>> /\ ~ret[1].raised) =>
        LET segs == rag.corpora[ret[1].speaker]
            n    == Len(segs)
            out  == ret[1].value
            m    == Len(out)
            sc   == [i \in 1..n |-> TextScore(ret[1].query, segs[i])]
        IN /\ m = (IF ret[1].top_k < n THEN ret[1].top_k ELSE n)
           /\ \E p \in [1..m -> 1..n] :
                 /\ \A i \in 1..m : out[i] = segs[p[i]]
                 /\ \A i, j \in 1..m : i < j =>
                       /\ p[i] # p[j]
                       /\ ~ScoreLess(sc[p[i]], sc[p[j]])
                       /\ ScoreEq(sc[p[i]], sc[p[j]]) => p[i] < p[j]
                 /\ \A x \in 1..n : (\A i \in 1..m : p[i] # x) =>
                       \A i \in 1..m :
                           /\ ~ScoreLess(sc[p[i]], sc[x])
                           /\ ScoreEq(sc[p[i]], sc[x]) => p[i] < x
           /\ (segs = <<"x y", "y y y">> /\ ret[1].query = "y" /\ ret[1].top_k = 1)
                 => out = <<"y y y">>
           /\ (segs = <<"x y", "y y y">> /\ ret[1].query = "z" /\ ret[1].top_k >= 2)
                 => out = <<"x y", "y y y">>

C4_Witness ==
    /\ ret # <<>>
    /\ ret[1].speaker = "A" /\ ret[1].query = "y" /\ ret[1].top_k = 2
    /\ {"A", "B"} \subseteq DOMAIN rag.corpora
    /\ rag.corpora["A"] = <<"y y y", "Y">>
    /\ ret[1].value = <<"y y y", "Y">>

-----------------------------------------------------------------------------
(* SpecCos: cosine_similarity called once on two token bags                *)

\* the longest token list a bag is counted from
MaxBagTokens == 3

CosWords == {"x", "y", "z"}
CosBags  == {Counter(toks) : toks \in SeqsUpTo(CosWords, MaxBagTokens)}

InitCos ==
    /\ ret = <<>>
    /\ IdleUi /\ IdleSeg /\ IdleDate /\ IdleJob

\* cosine_similarity(a, b)
CosCall ==
    /\ ret = <<>>
    /\ \E a \in CosBags : \E b \in CosBags :
           ret' = <<[a |-> a, b |-> b, value |-> cosine_similarity(a, b)]>>
    /\ UNCHANGED <<vars_ui, vars_seg, vars_date, vars_job>>

NextCos == CosCall

SpecCos == InitCos /\ [][NextCos]_vars

\* v is the score the claim states for the bags a and b, swapped being the
\* score of b and a
IsStatedScore(v, a, b, swapped) ==
    /\ ~FloatLess(v, FloatZero) /\ ~FloatLess(FloatOne, v)
    /\ v = swapped
    /\ (a = b /\ DOMAIN a # {}) => v = FloatOne
    /\ (DOMAIN a = {} \/ DOMAIN b = {}) => v = FloatZero

\* C12: the score of two token bags lies in [0, 1], is the same for the
\* bags swapped, is 1.0 for a non-empty bag and itself, and is 0.0 when one
\* of the bags is empty.
C12_ScoreProperties ==
    ret # <<>> =>
        IsStatedScore(ret[1].value, ret[1].a, ret[1].b,
                      cosine_similarity(ret[1].b, ret[1].a))

\* What holds of the float returned: it is the same for the bags swapped,
\* 0.0 when one of the bags is empty, 1.0 for a bag of one word and itself,
\* and within one unit in the last place of the 1.0 side of [0, 1].
ScoreUpToRounding ==
    ret # <<>> =>
        /\ ret[1].value = cosine_similarity(ret[1].b, ret[1].a)
        /\ (DOMAIN ret[1].a = {} \/ DOMAIN ret[1].b = {}) => ret[1].value = FloatZero
        /\ (ret[1].a = ret[1].b /\ Cardinality(DOMAIN ret[1].a) = 1)
               => ret[1].value = FloatOne
        /\ ~FloatLess([m |-> BigAdd(FloatOne.m, <<1>>), e |-> FloatOne.e], ret[1].value)

-----------------------------------------------------------------------------
(* SpecSort: the date index under add_speaker, and _sorted_date_labels     *)

\* the most keys the date index is given
MaxSortKeys == 3

\* date keys as extract_document_date returns them, and the sentinel
SortKeys ==
    {"2023-01-01", "2023-02-01", "2023 m. vasario 1 d.", "2023 m. Vasario 1 d.",
     "2022 m. gruodzio 31 d.", "9999-12-31", "2023-13-45",
     "2024 m. Foo 1 d.", "2024 m. bar 1 d.", UNKNOWN_DATE_LABEL}

InitSort ==
    /\ date_rag = EmptyRag
    /\ ret = <<>>
    /\ rag = EmptyRag /\ ingested = <<>> /\ cleared = <<>> /\ calls = <<>>
    /\ IdleSeg /\ IdleDate /\ IdleJob

\* date_rag.add_speaker(label, ['s']) for a label not yet a key
SortPut ==
    /\ Len(date_rag.keys) < MaxSortKeys
    /\ \E label \in SortKeys \ DOMAIN date_rag.corpora :
           date_rag' = add_speaker(date_rag, label, <<"s">>)
    /\ ret' = <<>>
    /\ UNCHANGED <<rag, ingested, cleared, calls, vars_seg, vars_date, vars_job>>

\* _sorted_date_labels()
SortCall ==
    /\ ret' = <<sorted_date_labels(date_rag)>>
    /\ UNCHANGED <<vars_ui, vars_seg, vars_date, vars_job>>

NextSort == SortPut \/ SortCall

SpecSort == InitSort /\ [][NextSort]_vars

\* the position of label in the list keys
PositionIn(keys, label) == CHOOSE i \in 1..Len(keys) : keys[i] = label

\* label a may stand before label b, whose parsed dates are pa and pb and
\* which keys lists in insertion order
MayPrecede(a, b, pa, pb, keys) ==
    /\ (pa # None /\ pb # None /\ pa # pb) => DateLess(pa[1], pb[1])
    /\ a = UNKNOWN_DATE_LABEL => pb = None
    /\ (pa = pb) => ~StrLess(Lower(b), Lower(a))
    /\ (pa = pb /\ Lower(a) = Lower(b)) => PositionIn(keys, a) < PositionIn(keys, b)

\* sorted lists the keys, each once, every earlier one before every later
IsSortedLabels(sorted, keys) ==
    /\ Len(sorted) = Len(keys)
    /\ {sorted[i] : i \in 1..Len(sorted)} = {keys[i] : i \in 1..Len(keys)}
    /\ \A i \in 1..Len(sorted) : \A j \in 1..Len(sorted) :
           i < j => MayPrecede(sorted[i], sorted[j], parse_date_label(sorted[i]),
                               parse_date_label(sorted[j]), keys)

\* C15: the sorted list of date keys holds every key once; of two keys
\* that parse to different dates the earlier date comes first, whatever
\* their text; no key that parses to a date comes after the unknown-date
\* sentinel; two keys with the same date, or both without one, are in the
\* order of their lowercased text, and in insertion order when that is equal.
C15_KeysSortedByDate ==
    ret # <<>> => IsSortedLabels(ret[1], date_rag.keys)

C15_Witness ==
    /\ date_rag.keys = <<UNKNOWN_DATE_LABEL, "2023 m. vasario 1 d.", "2023-01-01">>
    /\ ret = << <<"2023-01-01", "2023 m. vasario 1 d.", UNKNOWN_DATE_LABEL>> >>

-----------------------------------------------------------------------------
(* call_ollama (rag_speaker.py:132-166)                                    *)
(* A JSON value is [kind, members, s, n, b]: an object with its members, a *)
(* string, a number or a boolean.                                          *)

JsonObject(members) == [kind |-> "object", members |-> members, s |-> "", n |-> 0, b |-> FALSE]
JsonString(s)       == [kind |-> "string", members |-> <<>>, s |-> s, n |-> 0, b |-> FALSE]
JsonNumber(n)       == [kind |-> "number", members |-> <<>>, s |-> "", n |-> n, b |-> FALSE]
JsonBool(b)         == [kind |-> "bool", members |-> <<>>, s |-> "", n |-> 0, b |-> b]

\* the lines a server may send
OllamaLines ==
    {"{\"response\":\"Sv\",\"done\":false}",
     "{\"response\":\"eiki\",\"done\":true}",
     "{\"response\":\"!\"}",
     "{\"done\":true}",
     "",
     "{\"response\":\"x\"",
     "5",
     "{\"response\":7,\"done\":false}",
     " {\"response\":\" a\",\"done\":0} "}

\* json.loads(line) on these lines, stripped: <<>> for JSONDecodeError, else
\* <<the value>>
JsonLoads(line) ==
    CASE line = "{\"response\":\"Sv\",\"done\":false}"
           -> <<JsonObject([response |-> JsonString("Sv"), done |-> JsonBool(FALSE)])>>
      [] line = "{\"response\":\"eiki\",\"done\":true}"
           -> <<JsonObject([response |-> JsonString("eiki"), done |-> JsonBool(TRUE)])>>
      [] line = "{\"response\":\"!\"}"
           -> <<JsonObject([response |-> JsonString("!")])>>
      [] line = "{\"done\":true}"
           -> <<JsonObject([done |-> JsonBool(TRUE)])>>
      [] line = "{\"response\":\"x\""
           -> <<>>
      [] line = "5"
           -> <<JsonNumber(5)>>
      [] line = "{\"response\":7,\"done\":false}"
           -> <<JsonObject([response |-> JsonNumber(7), done |-> JsonBool(FALSE)])>>
      [] line = "{\"response\":\" a\",\"done\":0}"
           -> <<JsonObject([response |-> JsonString(" a"), done |-> JsonNumber(0)])>>

\* bool(value)
Truthy(v) ==
    CASE v.kind = "bool"   -> v.b
      [] v.kind = "number" -> v.n # 0
      [] v.kind = "string" -> v.s # ""
      [] v.kind = "object" -> DOMAIN v.members # {}

\* type(value).__name__
TypeName(v) ==
    CASE v.kind = "bool"   -> "bool"
      [] v.kind = "number" -> "int"
      [] v.kind = "string" -> "str"
      [] v.kind = "object" -> "dict"

\* what a piece of the body of the try statement comes to: an exception
\* with its text, or a value
Raise(exc)  == [raised |-> TRUE, exc |-> exc, value |-> <<>>]
Return(v)   == [raised |-> FALSE, exc |-> "", value |-> v]

RECURSIVE ScanLines(_, _, _)

\* lines 158-161: obj is what json.loads read
ScanObject(lines, n, parts, obj) ==
    IF obj.kind # "object"
    THEN Raise("argument of type '" \o TypeName(obj) \o "' is not iterable")
    ELSE IF "done" \in DOMAIN obj.members /\ Truthy(obj.members.done)
    THEN Return(IF "response" \in DOMAIN obj.members
                THEN Append(parts, obj.members.response) ELSE parts)
    ELSE ScanLines(lines, n + 1,
                   IF "response" \in DOMAIN obj.members
                   THEN Append(parts, obj.members.response) ELSE parts)

\* A variant of lines 156-157 that leaves the loop at a line json.loads
\* does not read (break for continue).
ScanLoadedUntilError(lines, n, parts, loaded) ==
    IF loaded = <<>> THEN Return(parts)
    ELSE ScanObject(lines, n, parts, loaded[1])

\* lines 154-161: loaded is what json.loads made of the line
ScanLoaded(lines, n, parts, loaded) ==
    IF loaded = <<>> THEN ScanLines(lines, n + 1, parts)
    ELSE ScanObject(lines, n, parts, loaded[1])

\* lines 151-161 for the stripped line
ScanLine(lines, n, parts, line) ==
    IF line = "" THEN ScanLines(lines, n + 1, parts)
    ELSE ScanLoaded(lines, n, parts, JsonLoads(line))

\* lines 150-161: the loop from the n-th line on; the value is parts
ScanLines(lines, n, parts) ==
    IF n > Len(lines) THEN Return(parts)
    ELSE ScanLine(lines, n, parts, Strip(lines[n]))

\* ''.join(parts) from the i-th part on
RECURSIVE JoinParts(_, _)
JoinParts(parts, i) ==
    IF i > Len(parts) THEN Return("")
    ELSE IF parts[i].kind # "string"
    THEN Raise("sequence item " \o Decimal(i - 1) \o ": expected str instance, "
                   \o TypeName(parts[i]) \o " found")
    ELSE LET rest == JoinParts(parts, i + 1)
         IN IF rest.raised THEN rest ELSE Return(parts[i].s \o rest.value)

\* lines 149-162 for what the loop came to
JoinScanned(scanned) ==
    IF scanned.raised THEN scanned ELSE JoinParts(scanned.value, 1)

\* lines 140-162: the body of the try statement.  transport is what urlopen
\* and read().decode came to: an exception, or the text raw.
TryBody(transport) ==
    IF transport.raised THEN Raise(transport.exc)
    ELSE JoinScanned(ScanLines(SplitLines(transport.raw), 1, <<>>))

\* A variant without the except clause of lines 165-166.
Uncaught(r) == r

\* lines 165-166: except Exception as exc
Caught(r) ==
    IF r.raised THEN Return("[Ollama error: " \o r.exc \o "]") ELSE r

\* lines 132-166
call_ollama(transport) == Caught(TryBody(transport))

-----------------------------------------------------------------------------
(* SpecLlm: call_ollama called once                                        *)

\* the most lines of a response body
MaxLlmLines == 4

\* what the request may come to
Transports ==
    {[raised |-> TRUE, exc |-> e, raw |-> ""] :
         e \in {"timed out", "<urlopen error [Errno 111] Connection refused>"}}
    \cup {[raised |-> FALSE, exc |-> "", raw |-> JoinLines(ls)] :
              ls \in SeqsUpTo(OllamaLines, MaxLlmLines)}

InitLlm ==
    /\ ret = <<>>
    /\ IdleUi /\ IdleSeg /\ IdleDate /\ IdleJob

\* call_ollama(model, prompt, url)
CallOllama ==
    /\ ret = <<>>
    /\ \E transport \in Transports :
           ret' = <<[transport |-> transport, result |-> call_ollama(transport)]>>
    /\ UNCHANGED <<vars_ui, vars_seg, vars_date, vars_job>>

NextLlm == CallOllama

SpecLlm == InitLlm /\ [][NextLlm]_vars

\* the values of the lines that are not blank and that json.loads reads
RECURSIVE StreamedValues(_)
StreamedValues(lines) ==
    IF lines = <<>> THEN <<>>
    ELSE (IF Strip(Head(lines)) = "" THEN <<>> ELSE JsonLoads(Strip(Head(lines))))
             \o StreamedValues(Tail(lines))

\* the scan ends at this value: its completion flag is set, or it is no
\* object at all
EndsScan(v) ==
    \/ v.kind # "object"
    \/ "done" \in DOMAIN v.members /\ Truthy(v.members.done)

\* the values up to and including the first that ends the scan
UpToEnd(vals) ==
    IF \E i \in 1..Len(vals) : EndsScan(vals[i])
    THEN SubSeq(vals, 1, CHOOSE i \in 1..Len(vals) :
                            EndsScan(vals[i]) /\ \A j \in 1..(i - 1) : ~EndsScan(vals[j]))
    ELSE vals

\* the value cannot be processed: it is no object, or its fragment no string
Unprocessable(v) ==
    \/ v.kind # "object"
    \/ "response" \in DOMAIN v.members /\ v.members.response.kind # "string"

\* the fragments of the objects, concatenated in order
RECURSIVE Fragments(_)
Fragments(vals) ==
    IF vals = <<>> THEN ""
    ELSE (IF "response" \in DOMAIN Head(vals).members
          THEN Head(vals).members.response.s ELSE "") \o Fragments(Tail(vals))

IsErrorString(s) ==
    /\ Len(s) > Len("[Ollama error: ]")
    /\ SubSeq(s, 1, Len("[Ollama error: ")) = "[Ollama error: "
    /\ SubSeq(s, Len(s), Len(s)) = "]"

\* result is what the claim gives for the transport, whose streamed values
\* up to the end of the scan are vals
IsOllamaResult(result, transport, vals) ==
    /\ ~result.raised
    /\ IF transport.raised \/ \E i \in 1..Len(vals) : Unprocessable(vals[i])
       THEN IsErrorString(result.value)
       ELSE result.value = Fragments(vals)

\* C19: call_ollama never raises.  When the request fails, or a value that
\* is scanned cannot be processed, it returns "[Ollama error: ...]".
\* Otherwise it returns the fragments, concatenated in order, of the objects
\* of the lines that are not blank and that json.loads reads, up to and
\* including the first object whose done is set: no fragment of a later
\* object, and neither a blank nor an unreadable line ends the scan.
C19_FragmentsUpToDone ==
    ret # <<>> =>
        IsOllamaResult(ret[1].result, ret[1].transport,
                       IF ret[1].transport.raised THEN <<>>
                       ELSE UpToEnd(StreamedValues(SplitLines(ret[1].transport.raw))))

C19_Witness ==
    /\ ret # <<>>
    /\ ret[1].transport.raw
           = "{\"response\":\"Sv\",\"done\":false}\n{\"response\":\"x\"\n"
               \o "{\"response\":\"eiki\",\"done\":true}\n{\"response\":\"!\"}"
    /\ ret[1].result = Return("Sveiki")

-----------------------------------------------------------------------------
(* The handlers of web_ui.py over the global indices rag and date_rag      *)

\* str.endswith
EndsWith(s, suffix) ==
    /\ Len(s) >= Len(suffix)
    /\ SubSeq(s, Len(s) - Len(suffix) + 1, Len(s)) = suffix

RECURSIVE NonEmptyOnes(_)
NonEmptyOnes(ss) ==
    IF ss = <<>> THEN <<>>
    ELSE IF Head(ss) = "" THEN NonEmptyOnes(Tail(ss))
    ELSE <<Head(ss)>> \o NonEmptyOnes(Tail(ss))

\* rag_speaker.py:15-31.  A file is [name, body]: body is <<the text>> of a
\* text file, or the texts of the paragraphs of a .docx document (those
\* without text are left out, the others joined by line breaks).  Any other
\* extension raises ValueError.
load_text(file) ==
    IF EndsWith(file.name, ".txt")
    THEN [raised |-> FALSE, text |-> file.body[1]]
    ELSE IF EndsWith(file.name, ".docx")
    THEN [raised |-> FALSE, text |-> JoinLines(NonEmptyOnes(file.body))]
    ELSE [raised |-> TRUE, text |-> ""]

\* the files a user may upload
Files ==
    {[name |-> "s1.txt",  body |-> <<"2023-01-01\nA: x y\nB: y">>],
     [name |-> "s2.txt",  body |-> <<"2023 m. vasario 1 d.\nA: y y y\nB: y">>],
     [name |-> "s3.docx", body |-> <<"A: z", "", "w">>],
     [name |-> "n.txt",   body |-> <<"p q\n\n r \n\n">>],
     [name |-> "x.pdf",   body |-> <<"A: q">>]}

\* documents in which parse_speakers finds no speaker, dated and undated,
\* with paragraphs and without, and one with speakers
DocFiles ==
    {[name |-> "s1.txt", body |-> <<"2023-01-01\nA: x y\nB: y">>],
     [name |-> "n.txt",  body |-> <<"p q\n\n r \n\n">>],
     [name |-> "d1.txt", body |-> <<"2023-01-01\n\np q\n\n r \n\n">>],
     [name |-> "d2.txt", body |-> <<"2023 m. kovo 3 d.\n \nw\n\n\n">>],
     [name |-> "d3.txt", body |-> <<"a\nb\n\n\n\nc">>],
     [name |-> "e1.txt", body |-> <<"">>],
     [name |-> "e2.txt", body |-> <<" \n\n \n">>]}

\* documents whose first line the date patterns match: a numeric form that
\* is no calendar date, a long form whose month word is no month, a long
\* form with a day the month lacks, a numeric form with slashes; and one
\* without a date
ReachFiles ==
    {[name |-> "r1.txt", body |-> <<"2023-13-45\nA: x">>],
     [name |-> "r2.txt", body |-> <<"2024 m. Foo 1 d.\n\nw">>],
     [name |-> "r3.txt", body |-> <<"2023 m. vasario 30 d.\nB: z">>],
     [name |-> "r4.txt", body |-> <<"2023/5/7\nA: y">>],
     [name |-> "r5.txt", body |-> <<"p q">>]}

\* parse_speakers and extract_document_date on the texts of these files,
\* computed once
\* documents for two ingests at a time: two that share a speaker and a
\* date, and one without speakers dated as the video with a transcript is
JobFiles ==
    {[name |-> "j1.txt", body |-> <<"2023-01-01\nA: x\nB: y">>],
     [name |-> "j2.txt", body |-> <<"2023-01-01\nA: z\nC: w">>],
     [name |-> "j3.txt", body |-> <<"2023-02-01\n\nq">>]}

FileTexts   ==
    {load_text(f).text : f \in Files \cup DocFiles \cup ReachFiles \cup JobFiles}
ParsedTexts == [t \in FileTexts |-> parse_speakers(t)]
DatedTexts  == [t \in FileTexts |-> extract_document_date(t, DEFAULT_MAX_LINES)]

\* text.split('\n\n')
RECURSIVE SplitBlank(_)
SplitBlank(s) ==
    LET ns == {i \in 1..(Len(s) - 1) : SubSeq(s, i, i + 1) = "\n\n"}
    IN IF ns = {} THEN <<s>>
       ELSE <<SubSeq(s, 1, Min(ns) - 1)>>
                \o SplitBlank(SubSeq(s, Min(ns) + 2, Len(s)))

\* A variant of lines 647-651 that keeps the paragraphs as split.
ParagraphsUntrimmed(text) == SplitBlank(text)

\* web_ui.py:647-651: the stripped paragraphs that are not empty
Paragraphs(text) ==
    LET ps == SplitBlank(text)
    IN NonEmptyOnes([i \in 1..Len(ps) |-> Strip(ps[i])])

\* dict.get(key, [])
GetOrEmpty(d, key) == IF key \in DOMAIN d THEN d[key] ELSE <<>>

\* A variant of line 644 that stores the new segments alone.
AccumulateOverwrite(existing, segs) == segs

\* web_ui.py:644: existing + segs
Accumulate(existing, segs) == existing \o segs

\* A variant of lines 655 and 780 that stores the new segments alone.
AccumulateDateOverwrite(existing_date, date_segments) == date_segments

\* web_ui.py:655, 780: existing_date + date_segments
AccumulateDate(existing_date, date_segments) == existing_date \o date_segments

\* web_ui.py:642-645: the loop over parsed.items(), from its n-th item on.
\* st is [rag, date_segments].
RECURSIVE AddParsed(_, _, _)
AddParsed(st, parsed, n) ==
    IF n > Len(parsed.order) THEN st
    ELSE LET sp   == parsed.order[n]
             segs == parsed.segs[sp]
         IN AddParsed([rag |-> add_speaker(st.rag, sp,
                                   Accumulate(GetOrEmpty(st.rag.corpora, sp), segs)),
                       date_segments |-> st.date_segments \o segs],
                      parsed, n + 1)

\* extract_document_date(text) or UNKNOWN_DATE_LABEL
DateLabelOr(found) ==
    IF found = None \/ found[1] = "" THEN UNKNOWN_DATE_LABEL ELSE found[1]

\* web_ui.py:653-655: the put of the date index
StoreDated(dr, date_label, date_segments) ==
    IF date_segments # <<>>
    THEN add_speaker(dr, date_label,
             AccumulateDate(GetOrEmpty(dr.corpora, date_label), date_segments))
    ELSE dr

\* web_ui.py:646-655, after the loop over the speakers has left added
StoreText(db, added, text, date_label) ==
    [rag      |-> added.rag,
     date_rag |-> StoreDated(db.date_rag, date_label,
                      IF added.date_segments = <<>> THEN Paragraphs(text)
                      ELSE added.date_segments)]

\* web_ui.py:640-655 for the text of a file
IngestText(db, text) ==
    StoreText(db,
              AddParsed([rag |-> db.rag, date_segments |-> <<>>], ParsedTexts[text], 1),
              text, DateLabelOr(DatedTexts[text]))

\* web_ui.py:635-655: one pass of the loop over files.  db is
\* [rag, date_rag].
IngestFile(db, file) ==
    IF load_text(file).raised THEN db ELSE IngestText(db, load_text(file).text)

\* A variant of lines 635-639 that leaves the loop at the first file
\* load_text does not read (break for continue).
RECURSIVE IngestFilesUntilError(_, _)
IngestFilesUntilError(db, files) ==
    IF files = <<>> \/ load_text(Head(files)).raised THEN db
    ELSE IngestFilesUntilError(IngestFile(db, Head(files)), Tail(files))

\* web_ui.py:634-655: the loop over files
RECURSIVE IngestFiles(_, _)
IngestFiles(db, files) ==
    IF files = <<>> THEN db
    ELSE IngestFiles(IngestFile(db, Head(files)), Tail(files))

\* sorted(keys) of strings, over the first n
RECURSIVE SortStrings(_, _)
SortStrings(keys, n) ==
    IF n = 0 THEN <<>>
    ELSE LET prev  == SortStrings(keys, n - 1)
             ahead == {j \in 1..Len(prev) : ~StrLess(keys[n], prev[j])}
             k     == Cardinality(ahead)
         IN SubSeq(prev, 1, k) \o <<keys[n]>> \o SubSeq(prev, k + 1, Len(prev))

\* sep.join(ss)
RECURSIVE JoinWith(_, _)
JoinWith(ss, sep) ==
    IF ss = <<>> THEN ""
    ELSE IF Len(ss) = 1 THEN ss[1]
    ELSE ss[1] \o sep \o JoinWith(Tail(ss), sep)

ElementsOf(seq) == {seq[i] : i \in 1..Len(seq)}

\* default or ''
OrEmpty(default) == IF default = None THEN "" ELSE default[1]

\* web_ui.py:706-714: _select, cleaned being the stripped candidate
SelectCleaned(cleaned, default, iso_dates) ==
    IF cleaned = "" THEN ""
    ELSE IF cleaned \in ElementsOf(iso_dates) THEN cleaned
    ELSE OrEmpty(default)

Select(candidate, default, iso_dates) ==
    IF candidate = None THEN OrEmpty(default)
    ELSE SelectCleaned(Strip(candidate[1]), default, iso_dates)

\* web_ui.py:147-150: the first and the last date
default_period_values(dates) ==
    IF dates = <<>> THEN <<None, None>> ELSE <<Some(dates[1]), Some(dates[Len(dates)])>>

\* web_ui.py:700-726 for the sorted speakers, the sorted date labels and the
\* ISO dates, without the calendar markup
Choices(names, dates, iso_dates, selected_speaker, selected_start, selected_end) ==
    [choices       |-> names,
     speaker_value |-> IF selected_speaker # None
                          /\ selected_speaker[1] \in ElementsOf(names)
                       THEN selected_speaker ELSE None,
     speakers_text |-> JoinWith(names, ", "),
     start_value   |-> Select(selected_start, default_period_values(iso_dates)[1],
                              iso_dates),
     end_value     |-> Select(selected_end, default_period_values(iso_dates)[2],
                              iso_dates),
     dates_text    |-> JoinWith(dates, ", ")]

\* web_ui.py:695-726
current_choices(db, selected_speaker, selected_start, selected_end) ==
    Choices(SortStrings(db.rag.keys, Len(db.rag.keys)),
            sorted_date_labels(db.date_rag), available_iso_dates(db.date_rag),
            selected_speaker, selected_start, selected_end)

\* the values an ingest handler returns for the widgets, for the outcome o
\* of its work on the indices
WithChoices(o) ==
    [db    |-> o.db,
     added |-> o.added,
     out   |-> [handler |-> o.handler, message |-> o.message,
                choices |-> current_choices(o.db, o.selected_speaker,
                                            o.selected_start, o.selected_end)]]

\* web_ui.py:616-667.  Returns the indices and the values for the widgets.
upload_fn(db, files, current_start, current_end) ==
    WithChoices([db |-> IngestFiles(db, files), added |-> files # <<>>,
                 handler |-> "upload_fn", message |-> "",
                 selected_speaker |-> None,
                 selected_start |-> current_start, selected_end |-> current_end])

\* A variant of lines 673-674 that leaves the date index as it is.
ClearedDateKept(dr) == dr

\* A variant of lines 671-672 without rag.tokens.clear().
ClearedSpeakersStore(r) == [r EXCEPT !.corpora = <<>>, !.keys = <<>>]

\* web_ui.py:671-672: rag.corpora.clear(); rag.tokens.clear()
ClearedSpeakers(r) == [r EXCEPT !.corpora = <<>>, !.tokens = <<>>, !.keys = <<>>]

\* web_ui.py:673-674: date_rag.corpora.clear(); date_rag.tokens.clear()
ClearedDate(dr) == [dr EXCEPT !.corpora = <<>>, !.tokens = <<>>, !.keys = <<>>]

\* web_ui.py:670-684: both indices are emptied (corpora and tokens)
clear_db(db) ==
    WithChoices([db |-> [rag |-> ClearedSpeakers(db.rag),
                         date_rag |-> ClearedDate(db.date_rag)],
                 added |-> FALSE,
                 handler |-> "clear_db", message |-> "Database cleared",
                 selected_speaker |-> None,
                 selected_start |-> None, selected_end |-> None])

\* What the network answers for a URL (rag_speaker.py:169-300):
\*   video_id    the result of extract_youtube_video_id, None when it raises
\*               ValueError
\*   title       the title the oEmbed request delivers, None when the
\*               request fails
\*   transcript  the segments fetch_youtube_transcript returns, None when it
\*               raises
YouTube(url) ==
    CASE url = "https://youtu.be/abcdefghijk" ->
            [video_id |-> Some("abcdefghijk"), title |-> Some("Posedis 2023-02-01"),
             transcript |-> << <<"y z", "w">> >>]
      [] url = "https://youtu.be/ABCDEFGHIJK" ->
            [video_id |-> Some("ABCDEFGHIJK"), title |-> None,
             transcript |-> << <<"q">> >>]
      [] url = "https://youtu.be/00000000000" ->
            [video_id |-> Some("00000000000"), title |-> Some("Be garso"),
             transcript |-> None]
      [] url = "https://youtu.be/11111111111" ->
            [video_id |-> Some("11111111111"), title |-> Some("Tyla"),
             transcript |-> << <<>> >>]
      [] OTHER ->
            [video_id |-> None, title |-> None, transcript |-> None]

\* rag_speaker.py:221-225 for the title the request delivered
TitledMetadata(video_id, title) ==
    [raised |-> FALSE, video_id |-> video_id, title |-> title,
     date_label |-> extract_document_date(title, DEFAULT_MAX_LINES),
     warning |-> None]

\* rag_speaker.py:204-229 for the answer net of the network:
\* [raised, video_id, title, date_label, warning]
MetadataOf(net) ==
    IF net.video_id = None
    THEN [raised |-> TRUE, video_id |-> "", title |-> "",
          date_label |-> None, warning |-> None]
    ELSE IF net.title = None
    THEN [raised |-> FALSE, video_id |-> net.video_id[1],
          title |-> net.video_id[1], date_label |-> None,
          warning |-> Some("Nepavyko gauti vaizdo iraso pavadinimo: timed out")]
    ELSE TitledMetadata(net.video_id[1],
                        IF net.title[1] = "" THEN net.video_id[1]
                        ELSE Strip(net.title[1]))

fetch_youtube_metadata(url) == MetadataOf(YouTube(url))

\* web_ui.py:154-158
IsoOfParsed(parsed) == IF parsed = None THEN None ELSE Some(IsoFormat(parsed[1]))
label_to_iso(label) == IsoOfParsed(parse_date_label(label))

\* iso_value if iso_value is not None else current
IsoOr(iso_value, current_value) == IF iso_value # None THEN iso_value ELSE current_value

\* message, with the warning behind it when there is one
Warned(message, sep, warning, dot) ==
    IF warning = None THEN message ELSE message \o sep \o warning[1] \o dot

\* an outcome of ingest_youtube that leaves the indices alone
YouTubeRefused(db, message, current_start, current_end) ==
    [db |-> db, added |-> FALSE, handler |-> "ingest_youtube", message |-> message,
     selected_speaker |-> None,
     selected_start |-> current_start, selected_end |-> current_end]

\* web_ui.py:787-796 (the messages in ASCII)
AddedMessage(meta, segments) ==
    Warned("Pridetas YouTube vaizdo irasas '" \o meta.title \o "' ("
               \o Decimal(Len(segments)) \o " segmentu)."
               \o (IF meta.date_label # None /\ meta.date_label[1] # ""
                   THEN " Data is pavadinimo: " \o meta.date_label[1] \o "."
                   ELSE " Data nenustatyta, priskirta prie \""
                            \o UNKNOWN_DATE_LABEL \o "\"."),
           " Ispejimas: ", meta.warning, ".")

\* web_ui.py:762-797 for a video with segments.  iso_value is the ISO date
\* of date_key.
IngestVideo(db, meta, segments, speaker_label, date_key, iso_value, current_start, current_end) ==
    IF speaker_label \in DOMAIN db.rag.corpora
    THEN [db |-> db, added |-> FALSE, handler |-> "ingest_youtube",
          message |-> Warned("Vaizdo irasas '" \o meta.title \o "' jau pridetas",
                             ". ", meta.warning, ""),
          selected_speaker |-> Some(speaker_label),
          selected_start |-> IsoOr(iso_value, current_start),
          selected_end |-> IsoOr(iso_value, current_end)]
    ELSE [db |-> [rag |-> add_speaker(db.rag, speaker_label, segments),
                  date_rag |-> add_speaker(db.date_rag, date_key,
                      AccumulateDate(GetOrEmpty(db.date_rag.corpora, date_key),
                                     segments))],
          added |-> TRUE, handler |-> "ingest_youtube",
          message |-> AddedMessage(meta, segments),
          selected_speaker |-> Some(speaker_label),
          selected_start |-> IsoOr(iso_value, current_start),
          selected_end |-> IsoOr(iso_value, current_end)]

\* web_ui.py:739-797 for the metadata and the transcript (None when the
\* fetch raises) of the video
IngestFetched(db, meta, transcript, current_start, current_end) ==
    IF meta.raised
    THEN YouTubeRefused(db, "Unable to extract video ID from URL",
                        current_start, current_end)
    ELSE IF transcript = None
    THEN YouTubeRefused(db, "Transkripcija nerasta siam vaizdo irasui",
                        current_start, current_end)
    ELSE IF transcript[1] = <<>>
    THEN YouTubeRefused(db, "Transkripcija tuscia", current_start, current_end)
    ELSE IngestVideo(db, meta, transcript[1],
                     "YouTube " \o meta.video_id \o ": " \o meta.title,
                     DateLabelOr(meta.date_label),
                     label_to_iso(DateLabelOr(meta.date_label)),
                     current_start, current_end)

\* web_ui.py:730-797 for the stripped url
IngestUrl(db, url, current_start, current_end) ==
    IF url = ""
    THEN YouTubeRefused(db, "Iveskite YouTube nuoroda", current_start, current_end)
    ELSE IngestFetched(db, fetch_youtube_metadata(url), YouTube(url).transcript,
                       current_start, current_end)

\* web_ui.py:729-797.  added tells whether the video went into the indices.
ingest_youtube(db, url, current_start, current_end) ==
    WithChoices(IngestUrl(db, Strip(url), current_start, current_end))

\* What a chat handler did besides answering: the date keys whose stored
\* segments it read, the retrieve calls it made with their results, and the
\* prompts it sent to call_ollama.
NoCalls == [read |-> <<>>, retrieve |-> <<>>, llm |-> <<>>]

\* history.append((question, text)); return history, ''
Reply(history, question, text, made) ==
    [raised |-> FALSE, history |-> Append(history, <<question, text>>),
     textbox |-> "", calls |-> made]

\* the handler left by the KeyError of a retrieve it made: nothing appended,
\* nothing returned
Fault(history, made) ==
    [raised |-> TRUE, history |-> history, textbox |-> "", calls |-> made]

\* A variant of line 529 that takes the unknown-date key as always there.
HasKeyOrUnknown(corpora, key) == key = UNKNOWN_DATE_LABEL \/ key \in DOMAIN corpora

\* A variant of the membership tests that lets every key through.
HasKeyAlways(corpora, key) == TRUE

\* web_ui.py:495, 529: key in corpora
HasKey(corpora, key) == key \in DOMAIN corpora

\* r.retrieve(key, query) as called by a handler: the index and key it is
\* called on, whether it raised KeyError (rag_speaker.py:127, self.tokens[key])
\* and the segments returned
RetrieveCall(index, r, key, query) ==
    [index  |-> index, key |-> key,
     raised |-> key \notin DOMAIN r.tokens,
     value  |-> IF key \in DOMAIN r.tokens
                THEN retrieve(r, key, query, DEFAULT_TOP_K) ELSE <<>>]

\* a retrieve of the calls made raised
Raised(made) == \E i \in DOMAIN made.retrieve : made.retrieve[i].raised

\* the prompt of lines 499-502, 533-536, 581-584 and 606-609
Prompt(descriptor, segments, question) ==
    "Use the following context from " \o descriptor
        \o " to answer the question.\n\nContext:\n" \o JoinWith(segments, "\n\n")
        \o "\n\nQuestion: " \o question \o "\nAnswer:"

\* web_ui.py:498-506, call being rag.retrieve(speaker, question)
ChatRetrieved(history, question, speaker, answer, call) ==
    IF call.raised
    THEN Fault(history, [read |-> <<>>, retrieve |-> <<call>>, llm |-> <<>>])
    ELSE Reply(history, question, answer,
               [read     |-> <<>>,
                retrieve |-> <<call>>,
                llm      |-> <<Prompt(speaker, call.value, question)>>])

\* web_ui.py:491-506.  answer is what call_ollama returns for the prompt.
chat_fn(r, history, question, speaker, answer) ==
    IF speaker = ""
    THEN Reply(history, question, "Please select a speaker", NoCalls)
    ELSE IF ~HasKey(r.corpora, speaker)
    THEN Reply(history, question, "Speaker '" \o speaker \o "' not found", NoCalls)
    ELSE ChatRetrieved(history, question, speaker, answer,
                       RetrieveCall("rag", r, speaker, question))

\* A variant of line 484 that pools the segments as they are stored, without
\* their label.
RECURSIVE CombinedUnlabelled(_, _)
CombinedUnlabelled(dr, labels) ==
    IF labels = <<>> THEN <<>>
    ELSE GetOrEmpty(dr.corpora, Head(labels)) \o CombinedUnlabelled(dr, Tail(labels))

\* web_ui.py:481-484: the labelled segments of the labels, in order
RECURSIVE Combined(_, _)
Combined(dr, labels) ==
    IF labels = <<>> THEN <<>>
    ELSE LET segs == GetOrEmpty(dr.corpora, Head(labels))
         IN [i \in 1..Len(segs) |-> "[" \o Head(labels) \o "] " \o segs[i]]
                \o Combined(dr, Tail(labels))

\* web_ui.py:485-489 for the labelled segments combined
RetrievePooled(combined, question, top_k) ==
    IF combined = <<>> THEN <<>>
    ELSE retrieve(add_speaker(EmptyRag, "_period_", combined),
                  "_period_", question, top_k)

\* web_ui.py:480-489
retrieve_period_segments(dr, question, labels, top_k) ==
    RetrievePooled(Combined(dr, labels), question, top_k)

\* the calls of retrieve_period_segments for the labelled segments combined
PooledCalls(labels, combined, question) ==
    [read     |-> labels,
     retrieve |-> IF combined = <<>> THEN <<>>
                  ELSE <<RetrieveCall("_period_",
                                      add_speaker(EmptyRag, "_period_", combined),
                                      "_period_", question)>>,
     llm      |-> <<>>]

PeriodCalls(dr, question, labels) ==
    PooledCalls(labels, Combined(dr, labels), question)

\* the calls of date_rag.retrieve(label, question)
DateCalls(dr, question, label) ==
    [read     |-> <<label>>,
     retrieve |-> <<RetrieveCall("date_rag", dr, label, question)>>,
     llm      |-> <<>>]

\* the members of keys that are in S, in the order of keys
RECURSIVE KeepIn(_, _)
KeepIn(keys, S) ==
    IF keys = <<>> THEN <<>>
    ELSE (IF Head(keys) \in S THEN <<Head(keys)>> ELSE <<>>) \o KeepIn(Tail(keys), S)

\* A variant of line 520 that lets a range through.
UnknownWithRangeIgnored(start_value, end_value) == FALSE

\* web_ui.py:520: if start_value or end_value
UnknownWithRange(start_value, end_value) == start_value # "" \/ end_value # ""

\* A variant of line 598 that leaves the start date out.
InPeriodAfterStart(parsed, start_date, end_date) ==
    DateLess(start_date, parsed) /\ DateLeq(parsed, end_date)

\* web_ui.py:598: start_date <= parsed <= end_date
InPeriod(parsed, start_date, end_date) ==
    DateLeq(start_date, parsed) /\ DateLeq(parsed, end_date)

\* labels.sort(key=_date_sort_key)
SortedKeys(m) == SortLabels(m, Len(m))

\* web_ui.py:598: parsed and start_date <= parsed <= end_date
DatedIn(parsed, start_date, end_date) ==
    parsed # None /\ InPeriod(parsed[1], start_date, end_date)

\* web_ui.py:564-569: the labels of the date start_value, sorted
MatchingLabels(dr, start_value) ==
    SortedKeys(KeepIn(dr.keys, {l \in DOMAIN dr.corpora :
        IsoOfParsed(parse_date_label(l)) = Some(start_value)}))

\* web_ui.py:595-600: the labels dated in the period, sorted
LabelsInPeriod(dr, start_date, end_date) ==
    SortedKeys(KeepIn(dr.keys, {l \in DOMAIN dr.corpora :
        DatedIn(parse_date_label(l), start_date, end_date)}))

\* web_ui.py:571-588 and 602-613: after the retrieval made
Finish(history, question, answer, made, segments, none_text, descriptor) ==
    IF Raised(made) THEN Fault(history, made)
    ELSE IF segments = <<>> THEN Reply(history, question, none_text, made)
    ELSE Reply(history, question, answer,
               [made EXCEPT !.llm = <<Prompt(descriptor, segments, question)>>])

\* the segments a retrieval returned
Retrieved(made) == IF made.retrieve = <<>> THEN <<>> ELSE made.retrieve[1].value

\* web_ui.py:519-542: the unknown-date selection
AskUnknown(dr, history, question, start_value, end_value, answer, made) ==
    IF UnknownWithRange(start_value, end_value)
    THEN Reply(history, question,
               "Please clear the calendar selection when querying \"Unknown date\" documents.",
               NoCalls)
    ELSE IF ~HasKey(dr.corpora, UNKNOWN_DATE_LABEL)
    THEN Reply(history, question, "No documents stored under \"Unknown date\"", NoCalls)
    ELSE Finish(history, question, answer, made, Retrieved(made),
                "No context available for documents with an unknown date",
                "documents with an unknown date")

\* web_ui.py:563-588: one date, whose labels are matching_labels
AskDate(dr, history, question, start_value, answer, matching_labels, made) ==
    IF matching_labels = <<>>
    THEN Reply(history, question, "No context available for " \o start_value, NoCalls)
    ELSE Finish(history, question, answer, made, Retrieved(made),
                "No context available for " \o start_value,
                "documents dated " \o start_value)

\* web_ui.py:571-574
MatchingCalls(dr, question, matching_labels) ==
    IF Len(matching_labels) = 1 THEN DateCalls(dr, question, matching_labels[1])
    ELSE PeriodCalls(dr, question, matching_labels)

\* web_ui.py:595-613: several dates, whose labels are labels_in_period
AskPeriod(dr, history, question, start_value, end_value, answer, labels_in_period, made) ==
    IF labels_in_period = <<>>
    THEN Reply(history, question, "No documents found in the selected period", NoCalls)
    ELSE Finish(history, question, answer, made, Retrieved(made),
                "No relevant context found for the selected period",
                "documents dated between " \o start_value \o " and " \o end_value)

\* web_ui.py:555-613 for the parsed bounds
AskParsed(dr, history, question, start_value, end_value, answer, start_date, end_date, available_iso) ==
    IF start_value \notin available_iso \/ end_value \notin available_iso
    THEN Reply(history, question, "Please choose dates highlighted in the calendar",
               NoCalls)
    ELSE IF DateLess(end_date, start_date)
    THEN Reply(history, question, "Period start must not be later than period end",
               NoCalls)
    ELSE IF start_value = end_value
    THEN AskDate(dr, history, question, start_value, answer,
                 MatchingLabels(dr, start_value),
                 MatchingCalls(dr, question, MatchingLabels(dr, start_value)))
    ELSE AskPeriod(dr, history, question, start_value, end_value, answer,
                   LabelsInPeriod(dr, start_date, end_date),
                   PeriodCalls(dr, question, LabelsInPeriod(dr, start_date, end_date)))

\* web_ui.py:544-553: the bounds are there and fromisoformat reads them
AskRange(dr, history, question, start_value, end_value, answer, start_parsed, end_parsed) ==
    IF start_value = "" \/ end_value = ""
    THEN Reply(history, question, "Please select both start and end dates", NoCalls)
    ELSE IF start_parsed = None \/ end_parsed = None
    THEN Reply(history, question, "Unable to interpret the selected period", NoCalls)
    ELSE AskParsed(dr, history, question, start_value, end_value, answer,
                   start_parsed[1], end_parsed[1],
                   ElementsOf(available_iso_dates(dr)))

\* web_ui.py:515-613 for the stripped bounds
AskStripped(dr, history, question, start_value, end_value, include_unknown, answer) ==
    IF include_unknown
    THEN AskUnknown(dr, history, question, start_value, end_value, answer,
                    DateCalls(dr, question, UNKNOWN_DATE_LABEL))
    ELSE AskRange(dr, history, question, start_value, end_value, answer,
                  FromIso(start_value), FromIso(end_value))

\* web_ui.py:508-613.  answer is what call_ollama returns for the prompt.
date_chat_fn(dr, history, question, start_value, end_value, include_unknown, answer) ==
    AskStripped(dr, history, question, Strip(start_value), Strip(end_value),
                include_unknown, answer)

-----------------------------------------------------------------------------
(* Spec: the handlers called one at a time (web_ui.py:799-891 wires each   *)
(* to a widget), from the empty indices                                    *)

\* the longest log of ingested sources followed
MaxIngests == 2

\* the URLs a user may enter
Urls ==
    {"  ", "https://example.com/v", " https://youtu.be/abcdefghijk",
     "https://youtu.be/ABCDEFGHIJK", "https://youtu.be/00000000000",
     "https://youtu.be/11111111111"}

\* the values of the period widgets passed along with an ingest
Selections == {<<None, None>>, <<Some(" 2023-01-01"), Some("2023-03-01")>>}

Questions      == {"y"}
Histories      == {<<<<"labas", "Sveiki.">>>>}
LlmAnswers     == {"Atsakymas.", "[Ollama error: timed out]"}
SpeakerChoices == {"", "A", "B", "C", "YouTube abcdefghijk: Posedis 2023-02-01"}
\* the start and end values of a date request
Periods ==
    {<<"", "">>, <<"2023-01-01", "">>, <<"x", "2023-01-01">>,
     <<"2023-01-01", "2023-01-01">>, <<"2023-01-01", "2023-01-31">>,
     <<"2023-01-01", " 2023-02-01">>, <<"2023-02-01", "2023-01-01">>,
     <<"2023-02-01 ", "2023-02-01">>, <<"2023-01-31", "2023-01-01">>,
     <<"2023-01-31", "2023-02-01">>}

Init ==
    /\ rag = EmptyRag /\ date_rag = EmptyRag
    /\ ingested = <<>> /\ cleared = <<>>
    /\ calls = NoCalls /\ ret = <<>>
    /\ IdleSeg /\ IdleDate /\ IdleJob

\* the files of a batch that load_text reads
RECURSIVE LoadedOf(_)
LoadedOf(files) ==
    IF files = <<>> THEN <<>>
    ELSE (IF load_text(Head(files)).raised THEN <<>>
          ELSE <<[kind |-> "file", file |-> Head(files)]>>) \o LoadedOf(Tail(files))

\* An ingest handler has returned r, having taken the sources entries into
\* the indices: the indices, the returned values and the two logs after it.
Ingested(r, entries) ==
    /\ Len(ingested) + Len(entries) <= MaxIngests
    /\ rag' = r.db.rag /\ date_rag' = r.db.date_rag
    /\ ret' = <<r.out>> /\ calls' = NoCalls
    /\ ingested' = ingested \o entries
    /\ cleared' = IF entries = <<>> THEN cleared ELSE <<>>
    /\ UNCHANGED <<vars_seg, vars_date, vars_job>>

IngestedVideo(r, url) ==
    Ingested(r, IF r.added THEN <<[kind |-> "video", url |-> url]>> ELSE <<>>)

\* A chat handler has returned r for the request req.
Answered(req, r) ==
    /\ ret' = <<[handler |-> req.handler, request |-> req, raised |-> r.raised,
                 history |-> r.history, textbox |-> r.textbox]>>
    /\ calls' = r.calls
    /\ UNCHANGED <<rag, date_rag, ingested, cleared, vars_seg, vars_date, vars_job>>

\* the batches a user may upload: up to MaxIngests files, and two files
\* that load_text reads with one it does not read between them
Batches ==
    SeqsUpTo(Files, MaxIngests)
        \cup {<<a, x, b>> : a \in {f \in Files : ~load_text(f).raised},
                            x \in {f \in Files : load_text(f).raised},
                            b \in {f \in Files : ~load_text(f).raised}}

\* the return r of an ingest handler, together with the files it was given
WithRequest(r, files) ==
    [db |-> r.db, added |-> r.added,
     out |-> [handler |-> r.out.handler, message |-> r.out.message,
              choices |-> r.out.choices, files |-> files]]

Upload ==
    \E files \in Batches : \E sel \in Selections :
        Ingested(WithRequest(upload_fn([rag |-> rag, date_rag |-> date_rag],
                                       files, sel[1], sel[2]), files),
                 LoadedOf(files))

IngestYouTube ==
    \E url \in Urls : \E sel \in Selections :
        IngestedVideo(ingest_youtube([rag |-> rag, date_rag |-> date_rag], url,
                                     sel[1], sel[2]),
                      Strip(url))

\* clear_db has returned r: the indices and the returned values after it,
\* with the keys the indices held before it.
Cleared(r) ==
    /\ cleared' = <<[speakers |-> DOMAIN rag.corpora, dates |-> DOMAIN date_rag.corpora]>>
    /\ ingested' = <<>>
    /\ rag' = r.db.rag /\ date_rag' = r.db.date_rag
    /\ ret' = <<r.out>> /\ calls' = NoCalls
    /\ UNCHANGED <<vars_seg, vars_date, vars_job>>

ClearDb == Cleared(clear_db([rag |-> rag, date_rag |-> date_rag]))

Chat ==
    \E history \in Histories : \E question \in Questions :
    \E speaker \in SpeakerChoices : \E answer \in LlmAnswers :
        Answered([handler |-> "chat_fn", history |-> history,
                  question |-> question, speaker |-> speaker],
                 chat_fn(rag, history, question, speaker, answer))

DateChat ==
    \E history \in Histories : \E question \in Questions :
    \E period \in Periods :
    \E include_unknown \in BOOLEAN : \E answer \in LlmAnswers :
        Answered([handler |-> "date_chat_fn", history |-> history,
                  question |-> question, start_value |-> period[1],
                  end_value |-> period[2], include_unknown |-> include_unknown],
                 date_chat_fn(date_rag, history, question, period[1], period[2],
                              include_unknown, answer))

Next == Upload \/ IngestYouTube \/ ClearDb \/ Chat \/ DateChat

Spec == Init /\ [][Next]_vars

-----------------------------------------------------------------------------
(* What the log of ingested sources says the indices hold                  *)

\* a is a prefix of b
IsPrefix(a, b) == Len(a) <= Len(b) /\ SubSeq(b, 1, Len(a)) = a

\* every key of old is a key of new, with its list of old a prefix of its
\* list of new
GrowsOnly(old, new) ==
    \A k \in DOMAIN old : k \in DOMAIN new /\ IsPrefix(old[k], new[k])

\* the key a video is stored under in the speaker index
VideoKeyOf(meta) == "YouTube " \o meta.video_id \o ": " \o meta.title

\* the speaker keys the segmenter produced for a text
TextKeys(parsed) == ElementsOf(parsed.order)

\* the speaker keys of a source of the log
EntryKeys(entry) ==
    IF entry.kind = "file" THEN TextKeys(ParsedTexts[load_text(entry.file).text])
    ELSE {VideoKeyOf(fetch_youtube_metadata(entry.url))}

\* the segments a source of the log holds for the speaker key S
EntrySegs(entry, S) ==
    IF entry.kind = "file"
    THEN GetOrEmpty(ParsedTexts[load_text(entry.file).text].segs, S)
    ELSE IF S = VideoKeyOf(fetch_youtube_metadata(entry.url))
    THEN YouTube(entry.url).transcript[1]
    ELSE <<>>

\* the segments of the first n sources of the log for the speaker key S,
\* one source after the other
RECURSIVE SpeakerSegsOf(_, _, _)
SpeakerSegsOf(log, S, n) ==
    IF n = 0 THEN <<>> ELSE SpeakerSegsOf(log, S, n - 1) \o EntrySegs(log[n], S)

\* the segments of all the speakers of a text, in the order of the speakers
RECURSIVE AllSegs(_, _)
AllSegs(parsed, n) ==
    IF n = 0 THEN <<>> ELSE AllSegs(parsed, n - 1) \o parsed.segs[parsed.order[n]]

\* the segments of a text: those of its speakers, its paragraphs when it
\* has none
SegsOrParagraphs(segs, text) == IF segs = <<>> THEN Paragraphs(text) ELSE segs

TextSegs(text) ==
    SegsOrParagraphs(AllSegs(ParsedTexts[text], Len(ParsedTexts[text].order)), text)

\* the date found, the label of the undated otherwise
FoundOrUnknown(found) == IF found = None THEN UNKNOWN_DATE_LABEL ELSE found[1]

\* the date key of a source of the log
EntryDateKey(entry) ==
    IF entry.kind = "file" THEN FoundOrUnknown(DatedTexts[load_text(entry.file).text])
    ELSE FoundOrUnknown(fetch_youtube_metadata(entry.url).date_label)

\* the segments of a source of the log
EntryDateSegs(entry) ==
    IF entry.kind = "file" THEN TextSegs(load_text(entry.file).text)
    ELSE YouTube(entry.url).transcript[1]

\* the segments of those of the first n sources of the log whose date key
\* is L, one source after the other
RECURSIVE DateSegsOf(_, _, _)
DateSegsOf(log, L, n) ==
    IF n = 0 THEN <<>>
    ELSE DateSegsOf(log, L, n - 1)
             \o (IF EntryDateKey(log[n]) = L THEN EntryDateSegs(log[n]) ELSE <<>>)

\* the handler whose return ret holds
Returned(handler) == ret # <<>> /\ ret[1].handler = handler

\* the chat handler answered its request with text
AnsweredWith(r, text) ==
    r.history = Append(r.request.history, <<r.request.question, text>>)

\* C1: with no reset in between, the list of every speaker key is the
\* concatenation, in ingest order, of the segments parse_speakers produced
\* for that speaker in each ingested document (for a video: its transcript
\* under its own key), and every key the segmenter produced is a key of the
\* index; an ingest leaves every key of both indices in place with its list
\* before the ingest a prefix of its list after it.
C1_IngestsAccumulate ==
    /\ [](\A S \in DOMAIN rag.corpora
                    \cup UNION {EntryKeys(ingested[i]) : i \in 1..Len(ingested)} :
             /\ S \in DOMAIN rag.corpora
             /\ rag.corpora[S] = SpeakerSegsOf(ingested, S, Len(ingested)))
    /\ [][ret'[1].handler \in {"upload_fn", "ingest_youtube"} =>
             /\ GrowsOnly(rag.corpora, rag'.corpora)
             /\ GrowsOnly(date_rag.corpora, date_rag'.corpora)]_vars

C1_Witness ==
    /\ Len(ingested) = 2
    /\ ingested[1].kind = "file" /\ ingested[1].file.name = "s1.txt"
    /\ ingested[2].kind = "file" /\ ingested[2].file.name = "s2.txt"
    /\ Returned("upload_fn")
    /\ DOMAIN rag.corpora = {"A", "B"}
    /\ rag.corpora["A"] = <<"x y", "y y y">>
    /\ rag.corpora["B"] = <<"y", "y">>

\* C2: clear_db leaves both indices empty, corpora and tokens; and as long
\* as nothing new is ingested after it they stay empty, no query retrieves
\* anything or reaches the language model, a speaker query for a key known
\* before the reset is answered "Speaker '<key>' not found", a query for the
\* undated documents known before the reset is answered 'No documents stored
\* under "Unknown date"', and a query for a date known before the reset is
\* answered 'Please choose dates highlighted in the calendar'.
C2_ResetEmptiesBothIndices ==
    /\ [][ret'[1].handler = "clear_db" =>
             /\ rag' = EmptyRag /\ date_rag' = EmptyRag
             /\ cleared' # <<>>]_vars
    /\ [](cleared # <<>> =>
             /\ rag = EmptyRag /\ date_rag = EmptyRag
             /\ calls = NoCalls
             /\ (Returned("chat_fn") /\ ret[1].request.speaker \in cleared[1].speakers)
                    => AnsweredWith(ret[1], "Speaker '" \o ret[1].request.speaker
                                                \o "' not found")
             /\ (/\ Returned("date_chat_fn")
                 /\ ret[1].request.include_unknown
                 /\ UNKNOWN_DATE_LABEL \in cleared[1].dates
                 /\ Strip(ret[1].request.start_value) = ""
                 /\ Strip(ret[1].request.end_value) = "")
                    => AnsweredWith(ret[1], "No documents stored under \"Unknown date\"")
             /\ (/\ Returned("date_chat_fn")
                 /\ ~ret[1].request.include_unknown
                 /\ Strip(ret[1].request.start_value) = Strip(ret[1].request.end_value)
                 /\ \E L \in cleared[1].dates :
                        label_to_iso(L) = Some(Strip(ret[1].request.start_value)))
                    => AnsweredWith(ret[1],
                                    "Please choose dates highlighted in the calendar"))

C2_Witness ==
    /\ cleared # <<>>
    /\ "A" \in cleared[1].speakers /\ "2023-01-01" \in cleared[1].dates
    /\ Returned("date_chat_fn")
    /\ ~ret[1].request.include_unknown
    /\ ret[1].request.start_value = "2023-01-01"
    /\ ret[1].request.end_value = "2023-01-01"
    /\ rag = EmptyRag /\ date_rag = EmptyRag

\* C3: every segment stored under a speaker key also stands, verbatim, in
\* the list of a date key; and the list of every date key is the
\* concatenation, in ingest order, of the segments of the sources whose date
\* key it is -- extract_document_date of the document (of the title, for a
\* video), "Nezinoma data" when that finds none -- so that the segments of a
\* source are stored under that one date key and under no other.
C3_SegmentsUnderOneDateKey ==
    /\ \A S \in DOMAIN rag.corpora : \A i \in 1..Len(rag.corpora[S]) :
           \E L \in DOMAIN date_rag.corpora :
               rag.corpora[S][i] \in ElementsOf(date_rag.corpora[L])
    /\ \A L \in DOMAIN date_rag.corpora
                    \cup {EntryDateKey(ingested[i]) : i \in 1..Len(ingested)} :
           /\ L \in DOMAIN date_rag.corpora
           /\ date_rag.corpora[L] = DateSegsOf(ingested, L, Len(ingested))

C3_Witness ==
    /\ Len(ingested) = 2
    /\ ingested[1].kind = "file" /\ ingested[1].file.name = "s3.docx"
    /\ ingested[2].kind = "video" /\ ingested[2].url = "https://youtu.be/ABCDEFGHIJK"
    /\ DOMAIN date_rag.corpora = {UNKNOWN_DATE_LABEL}
    /\ DOMAIN rag.corpora = {"A", "YouTube ABCDEFGHIJK: ABCDEFGHIJK"}
    /\ date_rag.corpora[UNKNOWN_DATE_LABEL]
           = rag.corpora["A"] \o rag.corpora["YouTube ABCDEFGHIJK: ABCDEFGHIJK"]

\* the date keys of the date index whose parsed date lies in
\* [start_date, end_date]
KeysDatedIn(corpora, start_date, end_date) ==
    {L \in DOMAIN corpora :
        /\ parse_date_label(L) # None
        /\ DateLeq(start_date, parse_date_label(L)[1])
        /\ DateLeq(parse_date_label(L)[1], end_date)}

\* the dates of the ingested documents, in ISO form
DocumentDates(corpora) ==
    {IsoFormat(parse_date_label(L)[1]) :
        L \in {K \in DOMAIN corpora : parse_date_label(K) # None}}

\* the segments of the keys, as stored and as labelled with their key
SegmentsOfKeys(corpora, keys) ==
    UNION {ElementsOf(corpora[L])
               \cup {"[" \o L \o "] " \o corpora[L][i] : i \in 1..Len(corpora[L])} :
           L \in keys}

\* what was retrieved and sent to the language model comes from the keys
ContextFrom(made, corpora, keys, question, descriptors) ==
    /\ \A i \in 1..Len(made.retrieve) :
           ElementsOf(made.retrieve[i].value) \subseteq SegmentsOfKeys(corpora, keys)
    /\ \A i \in 1..Len(made.llm) :
           \E descriptor \in descriptors :
               made.llm[i] = Prompt(descriptor, Retrieved(made), question)

\* the descriptors of the prompt of a request for the bounds
Descriptors(start_value, end_value) ==
    {"documents dated " \o start_value,
     "documents dated between " \o start_value \o " and " \o end_value}

\* the request r of the date chat reads exactly the keys dated in
\* [start_date, end_date]
ReadsPeriod(r, made, corpora, start_date, end_date) ==
    /\ ElementsOf(made.read) = KeysDatedIn(corpora, start_date, end_date)
    /\ ContextFrom(made, corpora, ElementsOf(made.read), r.request.question,
                   Descriptors(Strip(r.request.start_value),
                               Strip(r.request.end_value)))

\* the request r of the date chat is one with bounds start <= end
IsPeriodRequest(r, start_parsed, end_parsed) ==
    /\ ~r.request.include_unknown
    /\ start_parsed # None /\ end_parsed # None
    /\ DateLeq(start_parsed[1], end_parsed[1])

\* the sentence of the claim as it stands, for the bounds of the request
PeriodAsStated(r, made, corpora, start_parsed, end_parsed) ==
    IsPeriodRequest(r, start_parsed, end_parsed)
        => ReadsPeriod(r, made, corpora, start_parsed[1], end_parsed[1])

\* the same for bounds that are dates of ingested documents, and the
\* refusal for the others
PeriodOfDocumentDates(r, made, corpora, start_value, end_value, start_parsed, end_parsed) ==
    IsPeriodRequest(r, start_parsed, end_parsed)
        => IF {start_value, end_value} \subseteq DocumentDates(corpora)
           THEN ReadsPeriod(r, made, corpora, start_parsed[1], end_parsed[1])
           ELSE /\ made = NoCalls
                /\ AnsweredWith(r, "Please choose dates highlighted in the calendar")

RefusedWith(req, start_value, end_value, start_parsed, end_parsed, dates, text) ==
    IF req.include_unknown
    THEN /\ start_value # "" \/ end_value # ""
         /\ text = "Please clear the calendar selection when querying \"Unknown date\" documents."
    ELSE /\ start_parsed # None /\ end_parsed # None
         /\ DateLess(end_parsed[1], start_parsed[1])
         /\ text = (IF {start_value, end_value} \subseteq dates
                    THEN "Period start must not be later than period end"
                    ELSE "Please choose dates highlighted in the calendar")

\* the messages of the two refusals
RefusalTexts ==
    {"Please clear the calendar selection when querying \"Unknown date\" documents.",
     "Period start must not be later than period end",
     "Please choose dates highlighted in the calendar"}

\* C6: a date request whose start date is after its end date, or that
\* selects the undated documents together with a start or an end bound,
\* ends with one message appended to the conversation -- 'Please clear the
\* calendar selection when querying "Unknown date" documents.' for the
\* second, 'Period start must not be later than period end' for the first
\* when both bounds are dates of ingested documents and 'Please choose dates
\* highlighted in the calendar' when one is not -- without a stored segment
\* read, a retrieve made or a prompt sent to the language model, and with
\* both indices as they were.
C6_ValidationBeforeRetrieval ==
    [][(/\ ret'[1].handler = "date_chat_fn"
        /\ \E text \in RefusalTexts :
               RefusedWith(ret'[1].request,
                           Strip(ret'[1].request.start_value),
                           Strip(ret'[1].request.end_value),
                           FromIso(Strip(ret'[1].request.start_value)),
                           FromIso(Strip(ret'[1].request.end_value)),
                           DocumentDates(date_rag.corpora), text))
          => /\ \E text \in RefusalTexts :
                   /\ RefusedWith(ret'[1].request,
                                  Strip(ret'[1].request.start_value),
                                  Strip(ret'[1].request.end_value),
                                  FromIso(Strip(ret'[1].request.start_value)),
                                  FromIso(Strip(ret'[1].request.end_value)),
                                  DocumentDates(date_rag.corpora), text)
                   /\ AnsweredWith(ret'[1], text)
             /\ calls' = NoCalls
             /\ rag' = rag /\ date_rag' = date_rag]_vars

C6_Witness ==
    /\ Returned("date_chat_fn")
    /\ ~ret[1].request.include_unknown
    /\ ret[1].request.start_value = "2023-02-01"
    /\ ret[1].request.end_value = "2023-01-01"
    /\ DocumentDates(date_rag.corpora) = {"2023-01-01", "2023-02-01"}
    /\ AnsweredWith(ret[1], "Period start must not be later than period end")
    /\ calls = NoCalls


\* the retrieve call was made on a key the index named holds, and returned
QueriedPresent(call) ==
    /\ ~call.raised
    /\ call.index = "rag" => call.key \in DOMAIN rag.tokens
    /\ call.index = "date_rag" => call.key \in DOMAIN date_rag.tokens

\* the chat handler answered with text and made no call at all
ToldOnly(text) == AnsweredWith(ret[1], text) /\ calls = NoCalls

\* the date request names, by a bound that reads as a date, a date no key
\* of the date index has
NamesAbsentDate(req, start_parsed, end_parsed, dates) ==
    /\ ~req.include_unknown
    /\ start_parsed # None /\ end_parsed # None
    /\ ~({Strip(req.start_value), Strip(req.end_value)} \subseteq dates)

\* the date request asks for the unknown-date key, which the index lacks
NamesAbsentUnknown(req) ==
    /\ req.include_unknown
    /\ Strip(req.start_value) = "" /\ Strip(req.end_value) = ""
    /\ UNKNOWN_DATE_LABEL \notin DOMAIN date_rag.corpora

\* C13: no chat request ends in a fault: every retrieve a handler makes is
\* on a key its index holds and returns; a speaker request naming a speaker
\* not in the index is answered "Speaker '...' not found", a date request
\* for the unknown-date key not in the index 'No documents stored under
\* "Unknown date"', a date request naming a date no key has 'Please choose
\* dates highlighted in the calendar', each without any retrieve or prompt.
C13_AbsentKeyNeverQueried ==
    /\ \A i \in DOMAIN calls.retrieve : QueriedPresent(calls.retrieve[i])
    /\ Returned("chat_fn") =>
          /\ ~ret[1].raised
          /\ (ret[1].request.speaker # ""
                /\ ret[1].request.speaker \notin DOMAIN rag.corpora)
               => ToldOnly("Speaker '" \o ret[1].request.speaker \o "' not found")
    /\ Returned("date_chat_fn") =>
          /\ ~ret[1].raised
          /\ NamesAbsentUnknown(ret[1].request)
               => ToldOnly("No documents stored under \"Unknown date\"")
          /\ NamesAbsentDate(ret[1].request,
                             FromIso(Strip(ret[1].request.start_value)),
                             FromIso(Strip(ret[1].request.end_value)),
                             DocumentDates(date_rag.corpora))
               => ToldOnly("Please choose dates highlighted in the calendar")

C13_Witness ==
    /\ Returned("chat_fn")
    /\ ret[1].request.speaker = "C"
    /\ DOMAIN rag.corpora = {"A", "B"}
    /\ ToldOnly("Speaker 'C' not found")

\* the messages that report no documents or no context for the request
NoContextTexts(start_value) ==
    {"No documents stored under \"Unknown date\"",
     "No context available for documents with an unknown date",
     "No context available for " \o start_value,
     "No documents found in the selected period",
     "No relevant context found for the selected period"}

\* the date request is well formed (the undated documents with no bound, or
\* two bounds start <= end) and no key of the index falls in what it asks for
NothingInRange(req, start_parsed, end_parsed, corpora) ==
    IF req.include_unknown
    THEN /\ Strip(req.start_value) = "" /\ Strip(req.end_value) = ""
         /\ UNKNOWN_DATE_LABEL \notin DOMAIN corpora
    ELSE /\ start_parsed # None /\ end_parsed # None
         /\ DateLeq(start_parsed[1], end_parsed[1])
         /\ KeysDatedIn(corpora, start_parsed[1], end_parsed[1]) = {}

\* the date request is well formed and went as far as its retrieval, which
\* returned no segment
NothingRanked(made) == made.read # <<>> /\ Retrieved(made) = <<>>

\* every prompt sent holds the segments retrieved as its context, and there
\* is at least one of them
PromptsHaveContext(r, made) ==
    made.llm # <<>> =>
        /\ Retrieved(made) # <<>>
        /\ \E d \in Descriptors(Strip(r.request.start_value), Strip(r.request.end_value))
                        \cup {"documents with an unknown date"} :
               made.llm = <<Prompt(d, Retrieved(made), r.request.question)>>

\* with nothing in range or nothing ranked, the request is answered with
\* one of texts and no prompt is sent
ReportsNoContext(r, made, start_parsed, end_parsed, corpora, texts) ==
    (NothingInRange(r.request, start_parsed, end_parsed, corpora) \/ NothingRanked(made))
        => /\ made.llm = <<>>
           /\ \E text \in texts : AnsweredWith(r, text)

RECURSIVE SupportedOf(_)
SupportedOf(files) ==
    IF files = <<>> THEN <<>>
    ELSE (IF load_text(Head(files)).raised THEN <<>> ELSE <<Head(files)>>)
             \o SupportedOf(Tail(files))

\* the indices after upload_fn on the batch given, from the indices db
AfterBatch(db, files) == upload_fn(db, files, None, None).db

\* C16: after upload_fn on a batch, both indices are what upload_fn leaves
\* from the same indices on the batch without its files of unsupported
\* format, wherever those stand in the batch.
C16_UnsupportedFileSkipped ==
    [][ret'[1].handler = "upload_fn"
          => [rag |-> rag', date_rag |-> date_rag']
                 = AfterBatch([rag |-> rag, date_rag |-> date_rag],
                              SupportedOf(ret'[1].files))]_vars

C16_Witness ==
    /\ Returned("upload_fn")
    /\ Len(ret[1].files) = 3
    /\ ret[1].files[1].name = "s1.txt"
    /\ ret[1].files[2].name = "x.pdf"
    /\ ret[1].files[3].name = "s2.txt"
    /\ DOMAIN rag.corpora = {"A", "B"}
    /\ date_rag.keys = <<"2023-01-01", "2023 m. vasario 1 d.">>

\* "[label] segment"
Labelled(label, segment) == "[" \o label \o "] " \o segment

\* the segments stored under the first n of the labels, each labelled with
\* its key: key after key, in stored order within a key
RECURSIVE PoolOf(_, _, _)
PoolOf(corpora, labels, n) ==
    IF n = 0 THEN <<>>
    ELSE PoolOf(corpora, labels, n - 1)
             \o [i \in 1..Len(corpora[labels[n]]) |->
                     Labelled(labels[n], corpora[labels[n]][i])]

\* out is the top top_k of pool, whose scores against the question are sc:
\* min(top_k, Len(pool)) members of pool, no position twice, scores never
\* increasing, of equal scores the earlier position first, and no member
\* left out that scores higher than one returned
IsTopOfPool(out, pool, sc, top_k) ==
    /\ Len(out) = (IF top_k < Len(pool) THEN top_k ELSE Len(pool))
    /\ \E p \in [1..Len(out) -> 1..Len(pool)] :
          /\ \A i \in 1..Len(out) : out[i] = pool[p[i]]
          /\ \A i, j \in 1..Len(out) : i < j =>
                /\ p[i] # p[j]
                /\ ~ScoreLess(sc[p[i]], sc[p[j]])
                /\ ScoreEq(sc[p[i]], sc[p[j]]) => p[i] < p[j]
          /\ \A x \in 1..Len(pool) : (\A i \in 1..Len(out) : p[i] # x) =>
                \A i \in 1..Len(out) :
                    /\ ~ScoreLess(sc[p[i]], sc[x])
                    /\ ScoreEq(sc[p[i]], sc[x]) => p[i] < x

\* the labels are in the order of their dates
Chronological(labels) ==
    \A i, j \in 1..Len(labels) : i < j =>
        /\ parse_date_label(labels[i]) # None /\ parse_date_label(labels[j]) # None
        /\ ~DateLess(parse_date_label(labels[j])[1], parse_date_label(labels[i])[1])

\* the one retrieval of a date request over the keys labels returned out
PooledTopK(out, corpora, labels, pool, question) ==
    /\ Chronological(labels)
    /\ Len(out) <= DEFAULT_TOP_K
    /\ \A i \in 1..Len(out) : \E L \in ElementsOf(labels) :
           \E k \in 1..Len(corpora[L]) : out[i] = Labelled(L, corpora[L][k])
    /\ IsTopOfPool(out, pool, [i \in 1..Len(pool) |-> TextScore(question, pool[i])],
                   DEFAULT_TOP_K)

\* C17: a date request that reads several keys reads them in the order of
\* their dates and makes one retrieval, on the pool of their segments, key
\* after key and in stored order within a key, each as "[label] segment";
\* what it returns is the top DEFAULT_TOP_K of that one pool, so at most
\* DEFAULT_TOP_K strings in all, each "[L] s" for a key L read and a segment
\* s stored under L; and the request leaves the date index as it was.
C17_PooledTopK ==
    /\ []((Returned("date_chat_fn") /\ Len(calls.read) > 1) =>
            /\ Len(calls.retrieve) = 1
            /\ PooledTopK(calls.retrieve[1].value, date_rag.corpora, calls.read,
                          PoolOf(date_rag.corpora, calls.read, Len(calls.read)),
                          ret[1].request.question))
    /\ [][ret'[1].handler = "date_chat_fn" => date_rag' = date_rag]_vars

C17_Witness ==
    /\ Returned("date_chat_fn")
    /\ calls.read = <<"2023-01-01", "2023 m. vasario 1 d.">>
    /\ Len(PoolOf(date_rag.corpora, calls.read, 2)) = 4
    /\ Len(calls.retrieve[1].value) = 3
    /\ \E i \in 1..3 : calls.retrieve[1].value[i] = "[2023-01-01] y"
    /\ \E i \in 1..3 : calls.retrieve[1].value[i] = "[2023 m. vasario 1 d.] y y y"

-----------------------------------------------------------------------------
(* SpecDoc: upload_fn on one document at a time                            *)

\* the most documents uploaded
MaxDocs == 3

InitDoc ==
    /\ rag = EmptyRag /\ date_rag = EmptyRag
    /\ ingested = <<>> /\ cleared = <<>>
    /\ calls = NoCalls /\ ret = <<>>
    /\ IdleSeg /\ IdleDate /\ IdleJob

\* upload_fn([file], None, None)
DocUpload ==
    /\ Len(ingested) < MaxDocs
    /\ \E file \in DocFiles :
        LET r == WithRequest(upload_fn([rag |-> rag, date_rag |-> date_rag],
                                       <<file>>, None, None), <<file>>)
        IN /\ rag' = r.db.rag /\ date_rag' = r.db.date_rag
           /\ ret' = <<r.out>>
           /\ ingested' = Append(ingested, [kind |-> "file", file |-> file])
    /\ UNCHANGED <<cleared, calls, vars_seg, vars_date, vars_job>>

NextDoc == DocUpload

SpecDoc == InitDoc /\ [][NextDoc]_vars

\* the paragraphs of the documents without speakers, as the claim has them:
\* cut at blank lines, trimmed, the blank ones left out
ParagraphsOfDoc(name) ==
    CASE name = "n.txt"  -> <<"p q", "r">>
      [] name = "d1.txt" -> <<"2023-01-01", "p q", "r">>
      [] name = "d2.txt" -> <<"2023 m. kovo 3 d.\n \nw">>
      [] name = "d3.txt" -> <<"a\nb", "c">>
      [] name = "e1.txt" -> <<>>
      [] name = "e2.txt" -> <<>>

\* the date key of these documents
DateKeyOfDoc(name) ==
    CASE name = "d1.txt" -> "2023-01-01"
      [] name = "d2.txt" -> "2023 m. kovo 3 d."
      [] OTHER           -> UNKNOWN_DATE_LABEL

\* the index after is the index before with segs appended under key, a new
\* key coming last, and nothing else changed; with no segs it is the same
AppendedUnder(before, after, key, segs) ==
    IF segs = <<>> THEN after = before
    ELSE /\ after.keys = (IF key \in DOMAIN before.corpora THEN before.keys
                          ELSE Append(before.keys, key))
         /\ DOMAIN after.corpora = DOMAIN before.corpora \cup {key}
         /\ after.corpora[key] = GetOrEmpty(before.corpora, key) \o segs
         /\ \A k \in DOMAIN before.corpora \ {key} :
                after.corpora[k] = before.corpora[k]

\* C18: the upload of a document in which parse_speakers finds no speaker
\* leaves the speaker index as it was and appends to the list of the
\* document's date key (the sentinel when it has no date) in the date index
\* its paragraphs: the pieces between blank lines, trimmed, the empty ones
\* left out, in document order; with no paragraph both indices stay as they
\* were.
C18_NoSpeakerDocument ==
    [][(parse_speakers(load_text(ret'[1].files[1]).text).order = <<>>)
          => /\ rag' = rag
             /\ AppendedUnder(date_rag, date_rag',
                              DateKeyOfDoc(ret'[1].files[1].name),
                              ParagraphsOfDoc(ret'[1].files[1].name))]_vars

C18_Witness ==
    /\ ret # <<>>
    /\ ret[1].files[1].name = "d1.txt"
    /\ DOMAIN rag.corpora = {"A", "B"}
    /\ date_rag.corpora["2023-01-01"] = <<"x y", "y", "2023-01-01", "p q", "r">>
    /\ UNKNOWN_DATE_LABEL \in DOMAIN date_rag.corpora

\* the segment store and the token cache of the index r have the same keys,
\* lists of the same length, and every cached bag is the bag of its segment
CacheConsistent(r) ==
    /\ DOMAIN r.tokens = DOMAIN r.corpora
    /\ \A k \in DOMAIN r.corpora :
          /\ Len(r.tokens[k]) = Len(r.corpora[k])
          /\ \A i \in 1..Len(r.corpora[k]) :
                 r.tokens[k][i] = Counter(tokenize(r.corpora[k][i]))

\* C20: in every state reached by uploads, video ingests, resets and chat
\* requests, corpora and tokens of both indices have the same keys and the
\* same length per key, and the i-th bag of a key is
\* Counter(tokenize(the i-th segment)); and a chat request, which queries,
\* leaves corpora and tokens of both indices as they were.
C20_CacheMatchesStore ==
    /\ [](CacheConsistent(rag) /\ CacheConsistent(date_rag))
    /\ [][ret'[1].handler \in {"chat_fn", "date_chat_fn"}
             => rag' = rag /\ date_rag' = date_rag]_vars

C20_Witness ==
    /\ Returned("chat_fn")
    /\ ret[1].request.speaker = "A"
    /\ calls.retrieve # <<>>
    /\ rag.corpora["A"] = <<"x y", "y y y">>
    /\ rag.tokens["A"] = <<[x |-> 1, y |-> 1], [y |-> 3]>>
    /\ DOMAIN date_rag.tokens = {"2023-01-01", "2023 m. vasario 1 d."}

-----------------------------------------------------------------------------
(* SpecReach: documents with date lines of every kind uploaded one at a    *)
(* time, and date requests                                                 *)

\* the most documents uploaded
MaxReachDocs == 2

\* the start and end values of a date request
ReachPeriods ==
    {<<"", "">>, <<"2023-13-45", "2023-13-45">>, <<"2023-05-07", "2023-05-07">>,
     <<"2023-01-01", "2024-12-31">>}

InitReach ==
    /\ rag = EmptyRag /\ date_rag = EmptyRag
    /\ ingested = <<>> /\ cleared = <<>>
    /\ calls = NoCalls /\ ret = <<>>
    /\ IdleSeg /\ IdleDate /\ IdleJob

\* upload_fn([file], None, None)
ReachUpload ==
    /\ Len(ingested) < MaxReachDocs
    /\ \E file \in ReachFiles :
        LET r == WithRequest(upload_fn([rag |-> rag, date_rag |-> date_rag],
                                       <<file>>, None, None), <<file>>)
        IN /\ rag' = r.db.rag /\ date_rag' = r.db.date_rag
           /\ ret' = <<r.out>>
           /\ ingested' = Append(ingested, [kind |-> "file", file |-> file])
    /\ calls' = NoCalls
    /\ UNCHANGED <<cleared, vars_seg, vars_date, vars_job>>

\* date_chat_fn([], question, start, end, include_unknown)
ReachAsk ==
    \E period \in ReachPeriods : \E include_unknown \in BOOLEAN :
        Answered([handler |-> "date_chat_fn", history |-> <<>>,
                  question |-> "y", start_value |-> period[1],
                  end_value |-> period[2], include_unknown |-> include_unknown],
                 date_chat_fn(date_rag, <<>>, "y", period[1], period[2],
                              include_unknown, "Atsakymas."))

NextReach == ReachUpload \/ ReachAsk

SpecReach == InitReach /\ [][NextReach]_vars

\* the request whose return ret holds asked for the one date iso
AskedDate(iso) ==
    /\ Returned("date_chat_fn")
    /\ ~ret[1].request.include_unknown
    /\ Strip(ret[1].request.start_value) = iso
    /\ Strip(ret[1].request.end_value) = iso

\* the request whose return ret holds was the unknown-date selection
AskedUnknown ==
    /\ Returned("date_chat_fn")
    /\ ret[1].request.include_unknown
    /\ Strip(ret[1].request.start_value) = ""
    /\ Strip(ret[1].request.end_value) = ""

\* the key label, which parses to parsed, is offered: it is the sentinel, or
\* it parses to a calendar date that is among the available dates iso_dates
KeyOffered(label, parsed, iso_dates) ==
    \/ label = UNKNOWN_DATE_LABEL
    \/ parsed # None /\ IsoFormat(parsed[1]) \in iso_dates

\* a request for what is offered for the key reads the key
OfferedKeyRead(label, parsed) ==
    /\ (label = UNKNOWN_DATE_LABEL /\ AskedUnknown) => label \in ElementsOf(calls.read)
    /\ (parsed # None /\ AskedDate(IsoFormat(parsed[1]))) => label \in ElementsOf(calls.read)

\* C21: every key of the date index can be read by a date request: the
\* unknown-date sentinel by the unknown-date selection, and every other key
\* (a label extract_document_date returned) parses to a calendar date, that
\* date is among the available dates, and a request for that date reads the
\* key.
C21_EveryKeyReached ==
    \A label \in DOMAIN date_rag.corpora :
        /\ KeyOffered(label, parse_date_label(label),
                      ElementsOf(available_iso_dates(date_rag)))
        /\ OfferedKeyRead(label, parse_date_label(label))

\* What holds instead: the sentinel and the keys that parse to a calendar
\* date are offered and read as above; a key that parses to none is read by
\* no request made.
ReachedIffParsed ==
    \A label \in DOMAIN date_rag.corpora :
        IF label = UNKNOWN_DATE_LABEL \/ parse_date_label(label) # None
        THEN /\ KeyOffered(label, parse_date_label(label),
                           ElementsOf(available_iso_dates(date_rag)))
             /\ OfferedKeyRead(label, parse_date_label(label))
        ELSE label \notin ElementsOf(calls.read)

-----------------------------------------------------------------------------
(* SpecJob: two ingest handlers at a time, each on a worker thread of the  *)
(* embedding application.  A handler runs statement by statement; the      *)
(* other may run between any two of its reads and writes of the indices.   *)

Workers == {1, 2}

JobUrl == "https://youtu.be/abcdefghijk"

\* the sources the two handlers are called with
JobSources ==
    {[kind |-> "file", file |-> f] : f \in JobFiles}
        \cup {[kind |-> "video", url |-> JobUrl]}

\* rag_speaker.py:122: self.corpora[speaker] = texts
PutCorpora(r, speaker, texts) ==
    [corpora |-> DictPut(r.corpora, speaker, texts),
     tokens  |-> r.tokens,
     keys    |-> IF speaker \in DOMAIN r.corpora THEN r.keys
                 ELSE Append(r.keys, speaker)]

\* rag_speaker.py:123: self.tokens[speaker] = [Counter(tokenize(t)) for t in texts]
PutTokens(r, speaker, texts) ==
    [corpora |-> r.corpora,
     tokens  |-> DictPut(r.tokens, speaker,
                     [i \in 1..Len(texts) |-> Counter(tokenize(texts[i]))]),
     keys    |-> r.keys]

\* A variant of lines 643 and 653 that takes the key's list for empty.
ReadExistingEmpty(r, key) == <<>>

\* web_ui.py:643, 653, 779: corpora.get(key, [])
ReadExisting(r, key) == GetOrEmpty(r.corpora, key)

\* web_ui.py:642-645: the puts of the loop over parsed.items(), each of
\* them [index, key, segs, accumulate]
SpeakerTasks(parsed) ==
    [n \in 1..Len(parsed.order) |->
        [index |-> "rag", key |-> parsed.order[n],
         segs |-> parsed.segs[parsed.order[n]], accumulate |-> TRUE]]

\* web_ui.py:653-655, 779-780: the put of the date index
DateTask(date_label, date_segments) ==
    IF date_segments = <<>> THEN <<>>
    ELSE <<[index |-> "date_rag", key |-> date_label,
            segs |-> date_segments, accumulate |-> TRUE]>>

\* web_ui.py:640-655: the puts upload_fn makes for a text
FileTasks(text) ==
    SpeakerTasks(ParsedTexts[text])
        \o DateTask(DateLabelOr(DatedTexts[text]), TextSegs(text))

\* web_ui.py:777-780: the puts ingest_youtube makes for a video
VideoTasks(meta, segments) ==
    <<[index |-> "rag", key |-> VideoKeyOf(meta),
       segs |-> segments, accumulate |-> FALSE]>>
        \o DateTask(DateLabelOr(meta.date_label), segments)

\* the puts of the handler called with source
TasksOf(source) ==
    IF source.kind = "file" THEN FileTasks(load_text(source.file).text)
    ELSE VideoTasks(fetch_youtube_metadata(source.url),
                    YouTube(source.url).transcript[1])

\* the statement a handler is at with the puts tasks ahead of it
NextPc(tasks) ==
    IF tasks = <<>> THEN "done"
    ELSE IF Head(tasks).accumulate THEN "read" ELSE "put"

\* the index a put is for
IndexOf(name) == IF name = "rag" THEN rag ELSE date_rag

\* the list a put stores: existing + segs, or the segments alone
TextsOf(task, existing) ==
    IF ~task.accumulate THEN task.segs
    ELSE IF task.index = "rag" THEN Accumulate(existing, task.segs)
    ELSE AccumulateDate(existing, task.segs)

\* A worker that has not been given a handler to run.  puts are the puts
\* the handler makes and tasks those of them still ahead; stale is a log.
NoJob ==
    [pc |-> "idle", source |-> None, puts |-> <<>>, tasks |-> <<>>,
     existing |-> <<>>, stale |-> FALSE]

\* The embedding application either runs one handler at a time (serialized)
\* or hands every call to a worker as it comes.
InitJob ==
    /\ rag = EmptyRag /\ date_rag = EmptyRag
    /\ ingested = <<>> /\ cleared = <<>>
    /\ calls = NoCalls /\ ret = <<>>
    /\ IdleSeg /\ IdleDate
    /\ threads \in {[serialized |-> b, of |-> [t \in Workers |-> NoJob]] :
                        b \in BOOLEAN}

\* the worker t may be given a call: always, or when serialized while no
\* other handler is running
MayStart(ts, t) ==
    ts.serialized => \A u \in Workers \ {t} : ts.of[u].pc \in {"idle", "done"}

JobUnchanged == UNCHANGED <<cleared, calls, ret, vars_seg, vars_date>>

\* upload_fn([file]) or ingest_youtube(url) is called on the worker t, with
\* a source no other call was made with; it runs up to its first read or
\* write of an index.
JobStart(t) ==
    /\ threads.of[t].pc = "idle"
    /\ MayStart(threads, t)
    /\ \E source \in JobSources \ ElementsOf(ingested) :
        /\ threads' = [threads EXCEPT !.of[t] =
               [pc |-> IF source.kind = "video" THEN "check"
                       ELSE NextPc(TasksOf(source)),
                source |-> Some(source), puts |-> TasksOf(source),
                tasks |-> TasksOf(source), existing |-> <<>>,
                stale |-> FALSE]]
        /\ ingested' = Append(ingested, source)
    /\ UNCHANGED <<rag, date_rag>>
    /\ JobUnchanged

\* web_ui.py:764-775: if speaker_label in rag.corpora: return
JobCheck(t) ==
    /\ threads.of[t].pc = "check"
    /\ threads' = [threads EXCEPT !.of[t].puts =
                       IF Head(@).key \in DOMAIN rag.corpora THEN <<>> ELSE @,
                   !.of[t].tasks =
                       IF Head(@).key \in DOMAIN rag.corpora THEN <<>> ELSE @,
                   !.of[t].pc =
                       IF Head(threads.of[t].tasks).key \in DOMAIN rag.corpora
                       THEN "done" ELSE NextPc(threads.of[t].tasks)]
    /\ UNCHANGED <<rag, date_rag, ingested>>
    /\ JobUnchanged

\* web_ui.py:643, 653, 779: existing = corpora.get(key, [])
JobRead(t) ==
    /\ threads.of[t].pc = "read"
    /\ threads' = [threads EXCEPT !.of[t].existing =
                       ReadExisting(IndexOf(Head(threads.of[t].tasks).index),
                                    Head(threads.of[t].tasks).key),
                   !.of[t].pc = "put"]
    /\ UNCHANGED <<rag, date_rag, ingested>>
    /\ JobUnchanged

\* the index named after the worker's put of texts under the task's key
PutInto(name, task, texts) ==
    IF task.index = name THEN PutCorpora(IndexOf(name), task.key, texts)
    ELSE IndexOf(name)

\* web_ui.py:644, 655, 777, 780 as far as rag_speaker.py:122.  stale logs
\* that the list stored under the key was no longer the list read.
JobPut(t) ==
    /\ threads.of[t].pc = "put"
    /\ rag' = PutInto("rag", Head(threads.of[t].tasks),
                      TextsOf(Head(threads.of[t].tasks), threads.of[t].existing))
    /\ date_rag' = PutInto("date_rag", Head(threads.of[t].tasks),
                      TextsOf(Head(threads.of[t].tasks), threads.of[t].existing))
    /\ threads' = [threads EXCEPT !.of[t].stale =
                       \/ @
                       \/ /\ Head(threads.of[t].tasks).accumulate
                          /\ ReadExisting(IndexOf(Head(threads.of[t].tasks).index),
                                          Head(threads.of[t].tasks).key)
                                 # threads.of[t].existing,
                   !.of[t].pc = "count"]
    /\ UNCHANGED ingested
    /\ JobUnchanged

\* the index named after the worker's put of the tokens of texts
CountInto(name, task, texts) ==
    IF task.index = name THEN PutTokens(IndexOf(name), task.key, texts)
    ELSE IndexOf(name)

\* rag_speaker.py:123, and on to the next read or write of an index
JobCount(t) ==
    /\ threads.of[t].pc = "count"
    /\ rag' = CountInto("rag", Head(threads.of[t].tasks),
                        TextsOf(Head(threads.of[t].tasks), threads.of[t].existing))
    /\ date_rag' = CountInto("date_rag", Head(threads.of[t].tasks),
                        TextsOf(Head(threads.of[t].tasks), threads.of[t].existing))
    /\ threads' = [threads EXCEPT !.of[t].tasks = Tail(@),
                                  !.of[t].existing = <<>>,
                                  !.of[t].pc = NextPc(Tail(threads.of[t].tasks))]
    /\ UNCHANGED ingested
    /\ JobUnchanged

NextJob ==
    \E t \in Workers :
        JobStart(t) \/ JobCheck(t) \/ JobRead(t) \/ JobPut(t) \/ JobCount(t)

SpecJob == InitJob /\ [][NextJob]_vars

\* the handler on the worker t has returned
Finished(t) == threads.of[t].pc = "done"

\* the list holds the segments segs, one after the other
HoldsSegments(list, segs) ==
    \E p \in 0..(Len(list) - Len(segs)) :
        SubSeq(list, p + 1, p + Len(segs)) = segs

\* the segments of the put task are in the list of its key
TaskKept(task) ==
    /\ task.key \in DOMAIN IndexOf(task.index).corpora
    /\ HoldsSegments(IndexOf(task.index).corpora[task.key], task.segs)

\* the handler on the worker t has returned, and segments it put are
\* missing from the list of their key
LostSegments(t) ==
    /\ Finished(t)
    /\ \E i \in 1..Len(threads.of[t].puts) : ~TaskKept(threads.of[t].puts[i])

\* C22: accumulation is a read of the key's list, a concatenation and a
\* put, with no lock: when the ingests are serialized no segment of an
\* ingest that has returned is missing from the list of its key, and
\* segments are missing only after a put of a handler that stored over a
\* list another handler had put since it was read.
C22_SerializedKeepsSegments ==
    /\ threads.serialized => \A t \in Workers : ~LostSegments(t)
    /\ (\E t \in Workers : LostSegments(t))
           => \E u \in Workers : threads.of[u].stale

\* two ingests that were not serialized have both returned, and the segments
\* of one of the two are missing from a key's list while those of the other
\* are there
C22_Witness ==
    /\ ~threads.serialized
    /\ \A t \in Workers : Finished(t)
    /\ \E t \in Workers : LostSegments(t)
    /\ \E t \in Workers : ~LostSegments(t)

=============================================================================
